---- MODULE Spec2Model ----
(***************************************************************************)
(* snapsync: download, merge and extract of sharded RocksDB snapshots.     *)
(*                                                                         *)
(* Spec       the stage orchestrator (orchestrator.rs: download_snapshots, *)
(*            download_shard_chunks) with its download tasks, semaphore    *)
(*            and retry policy; merge and extract are single steps here.   *)
(*            A DownloadOnly run is followed by a MergeOnly and an         *)
(*            ExtractOnly invocation (main.rs).                            *)
(* SpecLong   the same orchestrator on the shards whose manifests have     *)
(*            three chunks or a repeated chunk name.                       *)
(* SpecMerge  merge_chunks (merge.rs) with its sliding window of           *)
(*            decompression tasks, run twice over one output file.         *)
(* SpecVerdicts  the union of SpecVerify, SpecLong and SpecExtract: every  *)
(*            place where a verification can fail.                         *)
(* SpecLive   SpecLong and SpecMerge under weak fairness, with the exit of  *)
(*            the process after an error (main.rs): termination.           *)
(* SpecVerify, SpecDownload, SpecSst, SpecResolve                          *)
(*            one call of verify_local_file (verify.rs),                   *)
(*            download_file_simple (download.rs), verify_sst_magic_number  *)
(*            (sst_verify.rs), download_metadata (metadata.rs) on inputs   *)
(*            drawn from bounded sets.                                     *)
(* SpecExtract  extract_tar (extract.rs), run twice over one archive.      *)
(***************************************************************************)
EXTENDS Integers, Sequences, FiniteSets, TLC

VARIABLES
    \* ---- caller's arguments (orchestrator.rs:47-52, types.rs:32-52)
    stage,                     \* ExecutionStage
    shard_ids,                 \* Vec<u32>, order as supplied
    max_concurrent_downloads,  \* DownloadConfig.max_concurrent_downloads
    skip_verify,               \* DownloadConfig.skip_verify
    \* ---- the file system
    workdir,                   \* does <workdir> exist
    metaFile,                  \* <workdir>/metadata.json
    files,                     \* <workdir>/shard-<id>/<chunk>, by <<id, chunk>>
    archive,                   \* <workdir>/shard_<id>_snapshot.tar, by id
    target,                    \* db_dir: the set of extracted payloads
    \* ---- locals of download_snapshots / download_shard_chunks
    pc,
    all_metadata,              \* HashMap shard -> chunks
    idx,                       \* position in shard_ids of the shard loop
    k,                         \* position in the fetch loop / the chunk loop
    filenames_in_order,
    download_tasks,            \* Vec<JoinHandle>: chunk positions, spawn order
    joinIdx,                   \* position in download_tasks of the join loop
    local_chunks,
    \* ---- spawned download tasks and the semaphore
    tasks,                     \* chunk position -> [st, attempts]
    permits,                   \* permits available in the Semaphore
    \* ---- observation (history) variables
    phaseLog,                  \* phases started, with their outcome
    netUsed,                   \* kinds of network request issued so far
    initialMeta,               \* metadata.json as the run found it
    invocation,                \* 1, 2, 3: which invocation of the program this is
    fetched,                   \* shard -> chunks as download_metadata returned them
    verified,                  \* verdicts of verify_local_file, by chunk position
    failure_hist,              \* history: which task failed first, whose error was returned
    \* ---- merge_chunks (merge.rs)
    m_chunks,                  \* local_chunks argument: chunk ids in list order
    window_size,
    current_index,
    pending_tasks,             \* Vec<JoinHandle>: chunk positions, oldest first
    mtask,                     \* chunk position -> state of its decompression
    tar_file,                  \* the output file
    finish_order,              \* history: positions in order of completion
    m_run,                     \* 1 or 2: which run of the merge stage this is
    m_first,                   \* history: chunks, output and result of run 1
    mpc,
    \* ---- one call of a function: its arguments and what it returned
    call_args,
    call_result,
    call_pc,
    \* ---- extract_tar (extract.rs)
    x_archive,                 \* the entries of the tar file, in order
    x_target,                  \* db_dir: path -> what is on disk there
    x_index,                   \* entries of the current run already handled
    file_count,
    skipped_count,
    extracted_count,
    x_run,                     \* 1 or 2: which run over the archive this is
    x_last,                    \* history: what the last entry met and did
    x_first,                   \* history: db_dir and counters after run 1
    x_initial,                 \* history: db_dir before run 1
    xpc

ovars == <<stage, shard_ids, max_concurrent_downloads, skip_verify, workdir,
           metaFile, files, archive, target, pc, all_metadata, idx, k,
           filenames_in_order, download_tasks, joinIdx, local_chunks, tasks,
           permits, phaseLog, netUsed, initialMeta, invocation, fetched,
           verified, failure_hist>>
mvars == <<m_chunks, window_size, current_index, pending_tasks, mtask,
           tar_file, finish_order, m_run, m_first, mpc>>
cvars == <<call_args, call_result, call_pc>>
xvars == <<x_archive, x_target, x_index, file_count, skipped_count,
           extracted_count, x_run, x_last, x_first, x_initial, xpc>>
vars == <<ovars, mvars, cvars, xvars>>

(***************************************************************************)
(* Bounds of the model.                                                    *)
(***************************************************************************)
MaxWorkers == 2     \* max_concurrent_downloads ranges over 1..MaxWorkers
MaxWindow == 3      \* window_size ranges over 1..MaxWindow
MaxChunks == 3      \* merge_chunks is given at most MaxChunks chunks

(***************************************************************************)
(* Small helpers.                                                          *)
(***************************************************************************)
Range(s) == {s[i] : i \in 1..Len(s)}

Last(s) == s[Len(s)]

RECURSIVE Flatten(_)
Flatten(ss) == IF ss = <<>> THEN <<>> ELSE Head(ss) \o Flatten(Tail(ss))

SeqsUpTo(S, n) == UNION {[1..m -> S] : m \in 0..n}

IsPrefix(s, t) == Len(s) <= Len(t) /\ SubSeq(t, 1, Len(s)) = s

(***************************************************************************)
(* types.rs: ExecutionStage and the stage flags of download_snapshots.     *)
(***************************************************************************)
ExecutionStage == {"All", "DownloadOnly", "MergeOnly", "ExtractOnly"}

should_download(st) == st = "All" \/ st = "DownloadOnly"

\* a merge flag that is also set for ExtractOnly
should_merge_unless_download(st) == st # "DownloadOnly"

should_merge(st) == st = "All" \/ st = "MergeOnly"

should_extract(st) == st = "All" \/ st = "ExtractOnly"

\* loading metadata.json in MergeOnly alone
loads_metadata_merge_only(st) == st = "MergeOnly"

\* orchestrator.rs:61: the stages that try metadata.json before the remote
loads_metadata(st) == st = "MergeOnly" \/ st = "ExtractOnly"

(***************************************************************************)
(* The remote: four shards, their manifests and chunk objects.  The        *)
(* manifest of shard 3 lists one chunk name twice.                         *)
(***************************************************************************)
Shards == {0, 1, 2, 3}

Manifest(s) ==
    CASE s = 0 -> <<"a", "b">>
      [] s = 1 -> <<"c">>
      [] s = 2 -> <<"a", "b", "c">>
      [] OTHER -> <<"a", "a">>

ChunkKeys == UNION {{<<s, c>> : c \in Range(Manifest(s))} : s \in Shards}

ChunkNames == {key[2] : key \in ChunkKeys}

\* A file: its size and the MD5 of its bytes (the digest stands for the bytes).
Absent == [exists |-> FALSE, size |-> 0, md5 |-> "none"]
EmptyFile == [exists |-> TRUE, size |-> 0, md5 |-> "empty"]
PartialFile == [exists |-> TRUE, size |-> 1, md5 |-> "part"]
RemoteObject(c) == [exists |-> TRUE, size |-> 2, md5 |-> c]
CorruptFile == [exists |-> TRUE, size |-> 2, md5 |-> "bad"]

\* Entity tags: absent, multipart (contains '-'), or an MD5 hex digest.
NoEtag == [kind |-> "none", md5 |-> "none"]
MultipartEtag == [kind |-> "multipart", md5 |-> "none"]
Md5Etag(d) == [kind |-> "md5", md5 |-> d]

NoLength == -1

(***************************************************************************)
(* metadata.rs: download_metadata.  A response is a transport failure, a   *)
(* status, or a body that parses as SnapshotMetadata or does not.          *)
(***************************************************************************)
ManifestResponse(kind, code, chunks) ==
    [kind |-> kind, code |-> code, chunks |-> chunks]

download_metadata(resp) ==
    IF resp.kind = "transport"
    THEN [ok |-> FALSE, err |-> "ReqwestError", chunks |-> <<>>]
    ELSE IF resp.code \notin 200..299
    THEN [ok |-> FALSE, err |-> "DownloadFailed", chunks |-> <<>>]
    ELSE IF resp.kind = "badjson"
    THEN [ok |-> FALSE, err |-> "DownloadFailed", chunks |-> <<>>]
    ELSE [ok |-> TRUE, err |-> "none", chunks |-> resp.chunks]

\* The answers the remote gives for shard s in Spec.
\* The remote answers with the manifest, with a manifest whose chunks list is
\* empty (`"chunks": []` deserializes), with 404, or not at all.
ManifestResponses(s) ==
    { ManifestResponse("json", 200, Manifest(s)),
      ManifestResponse("json", 200, <<>>),
      ManifestResponse("json", 404, <<>>),
      ManifestResponse("transport", 0, <<>>) }

(***************************************************************************)
(* verify.rs: verify_local_file.  head is the HEAD response; md5ok tells   *)
(* whether compute_file_md5 could read the file.                           *)
(***************************************************************************)
HeadResponse(kind, len, etag) == [kind |-> kind, len |-> len, etag |-> etag]

\* a verifier that looks at skip_verify before it looks for the file
verify_local_file_skip_first(f, skip, head, md5ok) ==
    IF skip THEN TRUE
    ELSE IF ~f.exists THEN FALSE
    ELSE IF head.kind # "ok" THEN FALSE
    ELSE IF head.len = NoLength THEN FALSE
    ELSE IF f.size # head.len THEN FALSE
    ELSE IF head.etag.kind = "none" THEN TRUE
    ELSE IF head.etag.kind = "multipart" THEN TRUE
    ELSE IF ~md5ok THEN FALSE
    ELSE f.md5 = head.etag.md5

\* a verifier that trusts a file whose MD5 it could not compute
verify_local_file_trusting_unreadable(f, skip, head, md5ok) ==
    IF ~f.exists THEN FALSE
    ELSE IF skip THEN TRUE
    ELSE IF head.kind # "ok" THEN FALSE
    ELSE IF head.len = NoLength THEN FALSE
    ELSE IF f.size # head.len THEN FALSE
    ELSE IF head.etag.kind = "none" THEN TRUE
    ELSE IF head.etag.kind = "multipart" THEN TRUE
    ELSE IF ~md5ok THEN TRUE
    ELSE f.md5 = head.etag.md5

verify_local_file(f, skip, head, md5ok) ==
    IF ~f.exists THEN FALSE
    ELSE IF skip THEN TRUE
    ELSE IF head.kind # "ok" THEN FALSE
    ELSE IF head.len = NoLength THEN FALSE
    ELSE IF f.size # head.len THEN FALSE
    ELSE IF head.etag.kind = "none" THEN TRUE
    ELSE IF head.etag.kind = "multipart" THEN TRUE
    ELSE IF ~md5ok THEN FALSE
    ELSE f.md5 = head.etag.md5

\* Whether verify_local_file issues the HEAD request at all.
verify_issues_head(f, skip) == f.exists /\ ~skip

HeadResponses(c) ==
    { HeadResponse("ok", RemoteObject(c).size, Md5Etag(c)),
      HeadResponse("transport", NoLength, NoEtag) }

(***************************************************************************)
(* download.rs: download_file_simple.  The result and the file it leaves   *)
(* at the local path; old is the file before the attempt.                  *)
(***************************************************************************)
GetResponse(kind, len, etag, body, streamOk) ==
    [kind |-> kind, len |-> len, etag |-> etag, body |-> body,
     streamOk |-> streamOk]

\* an attempt that leaves the file in place when the digest differs
download_file_simple_keeps_file(resp) ==
    IF resp.kind # "ok"
    THEN [ok |-> FALSE, err |-> "ReqwestError", file |-> EmptyFile]
    ELSE IF ~resp.streamOk
    THEN [ok |-> FALSE, err |-> "ReqwestError", file |-> PartialFile]
    ELSE IF resp.len # NoLength /\ resp.body.size # resp.len
    THEN [ok |-> FALSE, err |-> "IoError", file |-> resp.body]
    ELSE IF resp.etag.kind = "md5" /\ resp.body.md5 # resp.etag.md5
    THEN [ok |-> FALSE, err |-> "IoError", file |-> resp.body]
    ELSE [ok |-> TRUE, err |-> "none", file |-> resp.body]

\* an attempt that gives up when the answer declares no content-length
download_file_simple_requires_length(resp) ==
    IF resp.kind # "ok"
    THEN [ok |-> FALSE, err |-> "ReqwestError", file |-> EmptyFile]
    ELSE IF ~resp.streamOk
    THEN [ok |-> FALSE, err |-> "ReqwestError", file |-> PartialFile]
    ELSE IF resp.len = NoLength \/ resp.body.size # resp.len
    THEN [ok |-> FALSE, err |-> "IoError", file |-> resp.body]
    ELSE IF resp.etag.kind = "md5" /\ resp.body.md5 # resp.etag.md5
    THEN [ok |-> FALSE, err |-> "IoError", file |-> Absent]
    ELSE [ok |-> TRUE, err |-> "none", file |-> resp.body]

\* download.rs:22-113
download_file_simple(resp) ==
    IF resp.kind # "ok"
    THEN \* File::create has truncated the file; reqwest::get(..)? returns
         [ok |-> FALSE, err |-> "ReqwestError", file |-> EmptyFile]
    ELSE IF ~resp.streamOk
    THEN \* piece? returns in the middle of the stream
         [ok |-> FALSE, err |-> "ReqwestError", file |-> PartialFile]
    ELSE IF resp.len # NoLength /\ resp.body.size # resp.len
    THEN [ok |-> FALSE, err |-> "IoError", file |-> resp.body]
    ELSE IF resp.etag.kind = "md5" /\ resp.body.md5 # resp.etag.md5
    THEN \* remove_file, then the MD5 mismatch error
         [ok |-> FALSE, err |-> "IoError", file |-> Absent]
    ELSE [ok |-> TRUE, err |-> "none", file |-> resp.body]

GetResponses(c) ==
    { GetResponse("ok", RemoteObject(c).size, Md5Etag(c), RemoteObject(c), TRUE),
      GetResponse("ok", CorruptFile.size, Md5Etag(c), CorruptFile, TRUE),
      GetResponse("transport", NoLength, NoEtag, Absent, FALSE) }

(***************************************************************************)
(* orchestrator.rs:292-311: Retry::spawn over FixedInterval.take(5).  The  *)
(* strategy yields one delay per retry: after the n-th failed attempt the  *)
(* action is run again iff a delay is left, i.e. iff n - 1 < take.         *)
(***************************************************************************)
RetryTake == 5

\* a policy that counts the first attempt among the take(5)
retry_again_short(n) == n < RetryTake

retry_again(n) == n - 1 < RetryTake

(***************************************************************************)
(* tokio Semaphore: new(n) holds n permits; acquire needs one available.   *)
(***************************************************************************)
semaphore_new(n) == n

\* a semaphore that never blocks
can_acquire_always(p) == TRUE

can_acquire(p) == p > 0

\* a task that ends without giving its permit back
permit_forgotten(p) == p

\* orchestrator.rs:287, 315: `_permit` lives to the end of the task's block and
\* is dropped there, whatever the result; the drop adds the permit back
permit_dropped(p) == p + 1

(***************************************************************************)
(* merge.rs:61-68: what a decompression task returns for a chunk file, and *)
(* the output of a whole merge (the payloads in list order, up to the      *)
(* first chunk that fails).                                                *)
(***************************************************************************)
GzPayload(c) == CASE c = "a" -> <<1, 2>> [] c = "b" -> <<3>> [] OTHER -> <<4>>

gz_decode(f) ==
    IF f.exists /\ f.md5 \in ChunkNames
    THEN [ok |-> TRUE, bytes |-> GzPayload(f.md5)]
    ELSE [ok |-> FALSE, bytes |-> <<>>]

RECURSIVE merged_bytes(_)
merged_bytes(fs) ==
    IF fs = <<>> \/ ~gz_decode(Head(fs)).ok THEN <<>>
    ELSE gz_decode(Head(fs)).bytes \o merged_bytes(Tail(fs))

merge_ok(fs) == \A i \in 1..Len(fs) : gz_decode(fs[i]).ok

(***************************************************************************)
(* orchestrator.rs:144, 251: the local path of a chunk.                    *)
(***************************************************************************)
chunk_path(s, c) == <<s, c>>

paths_of(s, chunks) == [i \in 1..Len(chunks) |-> chunk_path(s, chunks[i])]

\* a list built by inserting at the front
push_filename_front(fns, path) == <<path>> \o fns

push_filename(fns, path) == Append(fns, path)

\* a shard loop that walks the ids in ascending order
shard_at_sorted(ids, i) ==
    CHOOSE s \in Range(ids) : Cardinality({x \in Range(ids) : x < s}) = i - 1

shard_at(ids, i) == ids[i]

NoArchive == [exists |-> FALSE, content |-> <<>>]
TarFile(bytes) == [exists |-> TRUE, content |-> bytes]

(***************************************************************************)
(* metadata.json.  The document is the sequence of its members, one per    *)
(* key of the HashMap in the map's iteration order; each member carries    *)
(* the chunks array of the manifest, element by element.                   *)
(***************************************************************************)
json_member(key, chunks) == [key |-> key, chunks |-> chunks]

\* the iteration orders a HashMap with the keys S can have
KeyOrders(S) == {o \in [1..Cardinality(S) -> S] : Range(o) = S}

\* a serializer that writes every array back to front
to_string_pretty_reversed(m, order) ==
    [i \in 1..Len(order) |->
        json_member(order[i],
            [n \in 1..Len(m[order[i]]) |->
                m[order[i]][Len(m[order[i]]) + 1 - n]])]

\* orchestrator.rs:77: serde_json::to_string_pretty(&all_metadata)
to_string_pretty(m, order) ==
    [i \in 1..Len(order) |-> json_member(order[i], m[order[i]])]

\* orchestrator.rs:63: serde_json::from_str::<HashMap<String, SnapshotMetadata>>;
\* of two members with one key the later one stays in the map
from_str(doc) ==
    [key \in {doc[i].key : i \in DOMAIN doc} |->
        LET at == CHOOSE i \in DOMAIN doc :
                      /\ doc[i].key = key
                      /\ \A j \in DOMAIN doc : doc[j].key = key => j <= i
        IN doc[at].chunks]

NoMetaFile == [kind |-> "none", doc |-> <<>>]
BadMetaFile == [kind |-> "corrupt", doc |-> <<>>]

\* the metadata.json an earlier run wrote for the shards of `order`
MetaFileOf(order) ==
    [kind |-> "json",
     doc |-> to_string_pretty([s \in Range(order) |-> Manifest(s)], order)]

NoTask == [st |-> "none", attempts |-> 0]

\* no task has failed and no error was returned
NoFailure == [first_failed |-> 0, returned |-> 0]

LogEntry(s, phase, res) == [shard |-> s, phase |-> phase, res |-> res]

SetLast(log, res) == [log EXCEPT ![Len(log)].res = res]

(***************************************************************************)
(* The states a run can start from.                                        *)
(***************************************************************************)
ShardLists == {<<0>>, <<0, 1>>, <<1, 0>>}

\* the chunk files of shards 0 and 1: none, all, or a good and a corrupt one
InitialFiles ==
    { [key \in ChunkKeys |-> Absent],
      [key \in ChunkKeys |->
          IF key[1] \in {0, 1} THEN RemoteObject(key[2]) ELSE Absent],
      [key \in ChunkKeys |->
          IF key = <<0, "a">> THEN RemoteObject("a")
          ELSE IF key = <<0, "b">> THEN CorruptFile ELSE Absent] }

InitialArchives ==
    { [s \in Shards |-> NoArchive],
      [s \in Shards |->
          IF s \in {0, 1}
          THEN TarFile(merged_bytes([i \in 1..Len(Manifest(s)) |->
                                        RemoteObject(Manifest(s)[i])]))
          ELSE NoArchive] }

InitialMetaFiles ==
    {NoMetaFile, BadMetaFile, MetaFileOf(<<0>>), MetaFileOf(<<1, 0>>)}

CallIdle ==
    /\ call_args = <<>>
    /\ call_result = <<>>
    /\ call_pc = "idle"

ExtractIdle ==
    /\ x_archive = <<>>
    /\ x_target = <<>>
    /\ x_index = 0
    /\ file_count = 0
    /\ skipped_count = 0
    /\ extracted_count = 0
    /\ x_run = 0
    /\ x_last = <<>>
    /\ x_first = <<>>
    /\ x_initial = <<>>
    /\ xpc = "idle"

MergeIdle ==
    /\ m_chunks = <<>>
    /\ window_size = 1
    /\ current_index = 0
    /\ pending_tasks = <<>>
    /\ mtask = <<>>
    /\ tar_file = NoArchive
    /\ finish_order = <<>>
    /\ m_run = 1
    /\ m_first = <<>>
    /\ mpc = "idle"

Init ==
    /\ stage \in ExecutionStage
    /\ shard_ids \in ShardLists
    /\ max_concurrent_downloads \in 1..MaxWorkers
    /\ skip_verify \in BOOLEAN
    /\ metaFile \in InitialMetaFiles
    /\ files \in InitialFiles
    /\ archive \in InitialArchives
    /\ workdir = (\/ metaFile.kind # "none"
                  \/ \E key \in ChunkKeys : files[key].exists
                  \/ \E s \in Shards : archive[s].exists)
    /\ target = {}
    /\ pc = "start"
    /\ all_metadata = <<>>
    /\ idx = 0
    /\ k = 0
    /\ filenames_in_order = <<>>
    /\ download_tasks = <<>>
    /\ joinIdx = 0
    /\ local_chunks = <<>>
    /\ tasks = <<>>
    /\ permits = 0
    /\ phaseLog = <<>>
    /\ netUsed = {}
    /\ initialMeta = metaFile
    /\ invocation = 1
    /\ fetched = <<>>
    /\ verified = <<>>
    /\ failure_hist = NoFailure
    /\ MergeIdle
    /\ CallIdle
    /\ ExtractIdle

(***************************************************************************)
(* download_snapshots, orchestrator.rs:47-225.                             *)
(***************************************************************************)
CurShard == shard_at(shard_ids, idx)

CurChunks == all_metadata[CurShard]

MapInsert(m, s, v) ==
    [x \in DOMAIN m \cup {s} |-> IF x = s THEN v ELSE m[x]]

\* orchestrator.rs:152-154, 178-180, 217: `continue` / end of the loop body
NextShard ==
    /\ idx' = idx + 1
    /\ pc' = "shard"

\* orchestrator.rs:53-71: create the working directory, load metadata.json
Start ==
    /\ pc = "start"
    /\ workdir' = TRUE
    /\ LET loaded == IF /\ loads_metadata(stage)
                        /\ metaFile.kind = "json"
                     THEN from_str(metaFile.doc) ELSE <<>>
       IN /\ all_metadata' = loaded
          /\ IF DOMAIN loaded = {}
             THEN pc' = "fetch" /\ k' = 1 /\ idx' = idx
             ELSE pc' = "shard" /\ idx' = 1 /\ k' = k
    /\ permits' = semaphore_new(max_concurrent_downloads)
    /\ UNCHANGED <<stage, shard_ids, max_concurrent_downloads, skip_verify,
                   initialMeta, invocation, fetched, verified, failure_hist,
                   metaFile, files, archive, target, filenames_in_order,
                   download_tasks, joinIdx, local_chunks, tasks, phaseLog,
                   netUsed, mvars, cvars, xvars>>

\* a fetch loop that asks again when a manifest request has failed
metadata_failure_retried(r) == "fetch"

\* a fetch loop that leaves a failed shard out and goes on to persist
metadata_failure_skipped(r) == "persist"

\* orchestrator.rs:73: the `?` after download_metadata(..).await returns the
\* error from download_snapshots
metadata_failure_returns(r) == "err"

\* orchestrator.rs:72-75: one download_metadata(..).await? of the fetch loop
FetchMetadata ==
    /\ pc = "fetch"
    /\ k <= Len(shard_ids)
    /\ \E resp \in ManifestResponses(shard_ids[k]) :
         LET r == download_metadata(resp) IN
         /\ netUsed' = netUsed \cup {"manifest"}
         /\ phaseLog' = Append(phaseLog,
                LogEntry(shard_ids[k], "metadata", IF r.ok THEN "ok" ELSE "err"))
         /\ IF r.ok
            THEN /\ all_metadata' = MapInsert(all_metadata, shard_ids[k], r.chunks)
                 /\ fetched' = MapInsert(fetched, shard_ids[k], r.chunks)
                 /\ k' = k + 1
                 /\ pc' = IF k = Len(shard_ids) THEN "persist" ELSE "fetch"
            ELSE /\ pc' = metadata_failure_returns(r)
                 /\ UNCHANGED <<all_metadata, fetched, k>>
    /\ UNCHANGED <<stage, shard_ids, max_concurrent_downloads, skip_verify,
                   initialMeta, invocation, verified, failure_hist,
                   workdir, metaFile, files, archive, target, idx,
                   filenames_in_order, download_tasks, joinIdx, local_chunks,
                   tasks, permits, mvars, cvars, xvars>>

\* orchestrator.rs:77-80: persist metadata.json
Persist ==
    /\ pc = "persist"
    /\ \E order \in KeyOrders(DOMAIN all_metadata) :
         metaFile' = [kind |-> "json",
                      doc |-> to_string_pretty(all_metadata, order)]
    /\ pc' = "shard"
    /\ idx' = 1
    /\ UNCHANGED <<stage, shard_ids, max_concurrent_downloads, skip_verify,
                   initialMeta, invocation, fetched, verified, failure_hist,
                   workdir, files, archive, target, all_metadata, k,
                   filenames_in_order, download_tasks, joinIdx, local_chunks,
                   tasks, permits, phaseLog, netUsed, mvars, cvars, xvars>>

\* orchestrator.rs:112-147: the head of the shard loop's body
BeginShard ==
    /\ pc = "shard"
    /\ idx <= Len(shard_ids)
    /\ IF CurShard \notin DOMAIN all_metadata
       THEN \* all_metadata[&shard_id.to_string()] panics
            /\ pc' = "panic"
            /\ UNCHANGED <<k, filenames_in_order, download_tasks, joinIdx,
                           local_chunks, tasks, phaseLog>>
       ELSE IF should_download(stage)
       THEN /\ phaseLog' = Append(phaseLog, LogEntry(CurShard, "download", "started"))
            /\ filenames_in_order' = <<>>
            /\ download_tasks' = <<>>
            /\ tasks' = [j \in 1..Len(CurChunks) |-> NoTask]
            /\ k' = 1
            /\ joinIdx' = 1
            /\ pc' = IF CurChunks = <<>> THEN "join" ELSE "verify"
            /\ UNCHANGED local_chunks
       ELSE /\ local_chunks' = paths_of(CurShard, CurChunks)
            /\ pc' = IF should_merge(stage) THEN "merge" ELSE "extract"
            /\ UNCHANGED <<k, filenames_in_order, download_tasks, joinIdx,
                           tasks, phaseLog>>
    /\ verified' = <<>>
    /\ failure_hist' = NoFailure
    /\ UNCHANGED <<stage, shard_ids, max_concurrent_downloads, skip_verify,
                   initialMeta, invocation, fetched,
                   workdir, metaFile, files, archive, target, all_metadata,
                   idx, permits, netUsed, mvars, cvars, xvars>>

\* verify.rs:80-177: every return of verify_local_file is an Ok(..)
Ok(valid) == [ok |-> TRUE, valid |-> valid]

\* orchestrator.rs:255-267: Ok(true) skips the chunk; Ok(false) | Err(_)
\* fall through to the download
needs_download(result) == ~(result.ok /\ result.valid)

\* orchestrator.rs:246-318: one iteration of the chunk loop
VerifyChunk ==
    /\ pc = "verify"
    /\ LET c == CurChunks[k]
           path == chunk_path(CurShard, c)
           f == files[path]
       IN \E head \in HeadResponses(c) :
          \E md5ok \in BOOLEAN :
            LET result == Ok(verify_local_file(f, skip_verify, head, md5ok)) IN
            /\ netUsed' = IF verify_issues_head(f, skip_verify)
                          THEN netUsed \cup {"head"} ELSE netUsed
            /\ verified' = Append(verified, result)
            /\ IF needs_download(result)
               THEN /\ filenames_in_order' = push_filename(filenames_in_order, path)
                    /\ download_tasks' = Append(download_tasks, k)
                    /\ tasks' = [tasks EXCEPT ![k].st = "waiting"]
               ELSE /\ filenames_in_order' = push_filename(filenames_in_order, path)
                    /\ UNCHANGED <<download_tasks, tasks>>
    /\ k' = k + 1
    /\ pc' = IF k = Len(CurChunks) THEN "join" ELSE "verify"
    /\ UNCHANGED <<stage, shard_ids, max_concurrent_downloads, skip_verify,
                   initialMeta, invocation, fetched, failure_hist,
                   workdir, metaFile, files, archive, target, all_metadata,
                   idx, joinIdx, local_chunks, permits, phaseLog, mvars, cvars, xvars>>

\* orchestrator.rs:287: semaphore.acquire().await
TaskAcquire(j) ==
    /\ tasks[j].st = "waiting"
    /\ can_acquire(permits)
    /\ permits' = permits - 1
    /\ tasks' = [tasks EXCEPT ![j].st = "running"]
    /\ UNCHANGED <<stage, shard_ids, max_concurrent_downloads, skip_verify,
                   initialMeta, invocation, fetched, verified, failure_hist,
                   workdir, metaFile, files, archive, target, pc,
                   all_metadata, idx, k, filenames_in_order, download_tasks,
                   joinIdx, local_chunks, phaseLog, netUsed, mvars, cvars, xvars>>

\* orchestrator.rs:294-315: one attempt of the retried download; the task
\* ends, dropping its permit, on success or when no retry is left
TaskAttempt(j) ==
    /\ tasks[j].st = "running"
    /\ LET c == CurChunks[j]
           n == tasks[j].attempts + 1
       IN \E resp \in GetResponses(c) :
            LET r == download_file_simple(resp) IN
            /\ files' = [files EXCEPT ![chunk_path(CurShard, c)] = r.file]
            /\ netUsed' = netUsed \cup {"get"}
            /\ IF r.ok
               THEN /\ tasks' = [tasks EXCEPT ![j] = [st |-> "ok", attempts |-> n]]
                    /\ permits' = permit_dropped(permits)
                    /\ UNCHANGED failure_hist
               ELSE IF retry_again(n)
               THEN /\ tasks' = [tasks EXCEPT ![j].attempts = n]
                    /\ UNCHANGED <<permits, failure_hist>>
               ELSE /\ tasks' = [tasks EXCEPT ![j] = [st |-> "failed", attempts |-> n]]
                    /\ permits' = permit_dropped(permits)
                    /\ failure_hist' =
                          IF failure_hist.first_failed = 0
                          THEN [failure_hist EXCEPT !.first_failed = j]
                          ELSE failure_hist
    /\ UNCHANGED <<stage, shard_ids, max_concurrent_downloads, skip_verify,
                   initialMeta, invocation, fetched, verified,
                   workdir, metaFile, archive, target, pc, all_metadata, idx,
                   k, filenames_in_order, download_tasks, joinIdx,
                   local_chunks, phaseLog, mvars, cvars, xvars>>

\* a join loop that awaits the handles from the newest to the oldest
newest_to_join(dts, i) == dts[Len(dts) + 1 - i]

\* orchestrator.rs:321: `for task in download_tasks` awaits the handles in
\* the order in which they were pushed
next_to_join(dts, i) == dts[i]

\* a join loop that drops the task's error
join_failure_ignored(st) == FALSE

\* What the join loop does with the result of the task it awaited.
join_failure_returns(st) == st = "failed"

\* orchestrator.rs:321-337: task.await of the join loop, in spawn order
JoinTask ==
    /\ pc = "join"
    /\ joinIdx <= Len(download_tasks)
    /\ LET awaited == next_to_join(download_tasks, joinIdx)
           st == tasks[awaited].st
       IN
       /\ st \in {"ok", "failed"}
       /\ IF join_failure_returns(st)
          THEN /\ pc' = "err"
               /\ phaseLog' = SetLast(phaseLog, "err")
               /\ failure_hist' = [failure_hist EXCEPT !.returned = awaited]
               /\ UNCHANGED joinIdx
          ELSE /\ joinIdx' = joinIdx + 1
               /\ UNCHANGED <<pc, phaseLog, failure_hist>>
    /\ UNCHANGED <<stage, shard_ids, max_concurrent_downloads, skip_verify,
                   initialMeta, invocation, fetched, verified,
                   workdir, metaFile, files, archive, target, all_metadata,
                   idx, k, filenames_in_order, download_tasks, local_chunks,
                   tasks, permits, netUsed, mvars, cvars, xvars>>

\* orchestrator.rs:339, 133-154: download_shard_chunks returns Ok
DownloadReturns ==
    /\ pc = "join"
    /\ joinIdx > Len(download_tasks)
    /\ local_chunks' = filenames_in_order
    /\ phaseLog' = SetLast(phaseLog, "ok")
    /\ IF stage = "DownloadOnly"
       THEN NextShard
       ELSE pc' = "merge" /\ UNCHANGED idx
    /\ UNCHANGED <<stage, shard_ids, max_concurrent_downloads, skip_verify,
                   initialMeta, invocation, fetched, verified, failure_hist,
                   workdir, metaFile, files, archive, target, all_metadata,
                   k, filenames_in_order, download_tasks, joinIdx, tasks,
                   permits, netUsed, mvars, cvars, xvars>>

\* orchestrator.rs:157-180: merge_chunks(&local_chunks, &tar_filename, ..).await?
Merge ==
    /\ pc = "merge"
    /\ LET fs == [i \in 1..Len(local_chunks) |-> files[local_chunks[i]]]
           out == merged_bytes(fs)
       IN IF merge_ok(fs)
          THEN /\ archive' = [archive EXCEPT ![CurShard] = TarFile(out)]
               /\ phaseLog' = Append(phaseLog, LogEntry(CurShard, "merge", "ok"))
               /\ IF stage = "MergeOnly"
                  THEN NextShard
                  ELSE pc' = "extract" /\ UNCHANGED idx
          ELSE \* the BufWriter is dropped unflushed: some prefix is on disk
               /\ \E n \in 0..Len(out) :
                     archive' = [archive EXCEPT ![CurShard] = TarFile(SubSeq(out, 1, n))]
               /\ phaseLog' = Append(phaseLog, LogEntry(CurShard, "merge", "err"))
               /\ pc' = "err"
               /\ UNCHANGED idx
    /\ UNCHANGED <<stage, shard_ids, max_concurrent_downloads, skip_verify,
                   initialMeta, invocation, fetched, verified, failure_hist,
                   workdir, metaFile, files, target, all_metadata, k,
                   filenames_in_order, download_tasks, joinIdx, local_chunks,
                   tasks, permits, netUsed, mvars, cvars, xvars>>

\* orchestrator.rs:189-216: fs::metadata(&tar_filename)?, extract_tar(..)?
Extract ==
    /\ pc = "extract"
    /\ IF archive[CurShard].exists
       THEN /\ target' = target \cup Range(archive[CurShard].content)
            /\ phaseLog' = Append(phaseLog, LogEntry(CurShard, "extract", "ok"))
            /\ NextShard
       ELSE /\ phaseLog' = Append(phaseLog, LogEntry(CurShard, "extract", "err"))
            /\ pc' = "err"
            /\ UNCHANGED <<target, idx>>
    /\ UNCHANGED <<stage, shard_ids, max_concurrent_downloads, skip_verify,
                   initialMeta, invocation, fetched, verified, failure_hist,
                   workdir, metaFile, files, archive, all_metadata, k,
                   filenames_in_order, download_tasks, joinIdx, local_chunks,
                   tasks, permits, netUsed, mvars, cvars, xvars>>

\* orchestrator.rs:219-224: the loop is over, Ok(())
Finish ==
    /\ pc = "shard"
    /\ idx > Len(shard_ids)
    /\ pc' = "ok"
    /\ UNCHANGED <<stage, shard_ids, max_concurrent_downloads, skip_verify,
                   initialMeta, invocation, fetched, verified, failure_hist,
                   workdir, metaFile, files, archive, target, all_metadata,
                   idx, k, filenames_in_order, download_tasks, joinIdx,
                   local_chunks, tasks, permits, phaseLog, netUsed, mvars, cvars, xvars>>

\* spec.md's staged use: the program is started again with the next stage
\* (main.rs:98-160 builds the arguments and calls download_snapshots) on the
\* files the previous invocation left
\* a staged use that goes from the download straight to the extraction
next_stage_skipping_merge(st) == "ExtractOnly"

next_stage(st) == IF st = "DownloadOnly" THEN "MergeOnly" ELSE "ExtractOnly"

Reinvoke ==
    /\ pc = "ok"
    /\ \/ stage = "DownloadOnly" /\ invocation = 1
       \/ stage = "MergeOnly" /\ invocation = 2
    /\ invocation' = invocation + 1
    /\ stage' = next_stage(stage)
    /\ pc' = "start"
    /\ all_metadata' = <<>>
    /\ idx' = 0
    /\ k' = 0
    /\ filenames_in_order' = <<>>
    /\ download_tasks' = <<>>
    /\ joinIdx' = 0
    /\ local_chunks' = <<>>
    /\ tasks' = <<>>
    /\ permits' = 0
    /\ phaseLog' = <<>>
    /\ netUsed' = {}
    /\ verified' = <<>>
    /\ failure_hist' = NoFailure
    /\ initialMeta' = metaFile
    /\ UNCHANGED <<shard_ids, max_concurrent_downloads, skip_verify, workdir,
                   metaFile, files, archive, target, fetched, mvars, cvars,
                   xvars>>

Next ==
    \/ Start
    \/ FetchMetadata
    \/ Persist
    \/ BeginShard
    \/ VerifyChunk
    \/ \E j \in DOMAIN tasks : TaskAcquire(j)
    \/ \E j \in DOMAIN tasks : TaskAttempt(j)
    \/ JoinTask
    \/ DownloadReturns
    \/ Merge
    \/ Extract
    \/ Finish
    \/ Reinvoke

Spec == Init /\ [][Next]_vars

(***************************************************************************)
(* The same program on one shard of three chunks or on one shard whose     *)
(* manifest lists a chunk twice, started with no chunk file or with good   *)
(* and corrupt ones.                                                       *)
(***************************************************************************)
InitLong ==
    /\ stage \in {"All", "DownloadOnly"}
    /\ shard_ids \in {<<2>>, <<3>>}
    /\ max_concurrent_downloads \in 1..MaxWorkers
    /\ skip_verify = FALSE
    /\ metaFile = NoMetaFile
    /\ files \in { [key \in ChunkKeys |-> Absent],
                    [key \in ChunkKeys |->
                        IF key[2] = "a" /\ key[1] \in {2, 3}
                        THEN RemoteObject("a")
                        ELSE IF key = <<2, "b">> THEN CorruptFile
                        ELSE Absent] }
    /\ archive = [s \in Shards |-> NoArchive]
    /\ workdir = \E key \in ChunkKeys : files[key].exists
    /\ target = {}
    /\ pc = "start"
    /\ all_metadata = <<>>
    /\ idx = 0
    /\ k = 0
    /\ filenames_in_order = <<>>
    /\ download_tasks = <<>>
    /\ joinIdx = 0
    /\ local_chunks = <<>>
    /\ tasks = <<>>
    /\ permits = 0
    /\ phaseLog = <<>>
    /\ netUsed = {}
    /\ initialMeta = metaFile
    /\ invocation = 1
    /\ fetched = <<>>
    /\ verified = <<>>
    /\ failure_hist = NoFailure
    /\ MergeIdle
    /\ CallIdle
    /\ ExtractIdle

SpecLong == InitLong /\ [][Next]_vars

(***************************************************************************)
(* merge_chunks, merge.rs:22-94.                                           *)
(***************************************************************************)
MergeFiles ==
    {RemoteObject("a"), RemoteObject("b"), RemoteObject("c"), CorruptFile, Absent}

OrchestratorIdle ==
    /\ stage = "MergeOnly"
    /\ shard_ids = <<>>
    /\ max_concurrent_downloads = 1
    /\ skip_verify = FALSE
    /\ workdir = TRUE
    /\ metaFile = NoMetaFile
    /\ files = <<>>
    /\ archive = <<>>
    /\ target = {}
    /\ pc = "idle"
    /\ all_metadata = <<>>
    /\ idx = 0
    /\ k = 0
    /\ filenames_in_order = <<>>
    /\ download_tasks = <<>>
    /\ joinIdx = 0
    /\ local_chunks = <<>>
    /\ tasks = <<>>
    /\ permits = 0
    /\ phaseLog = <<>>
    /\ netUsed = {}
    /\ initialMeta = NoMetaFile
    /\ invocation = 1
    /\ fetched = <<>>
    /\ verified = <<>>
    /\ failure_hist = NoFailure

InitMerge ==
    /\ OrchestratorIdle
    /\ CallIdle
    /\ ExtractIdle
    /\ m_chunks \in SeqsUpTo(MergeFiles, MaxChunks)
    /\ window_size \in 1..MaxWindow
    /\ tar_file \in {NoArchive, TarFile(<<9>>)}
    /\ current_index = 0
    /\ pending_tasks = <<>>
    /\ mtask = [i \in 1..Len(m_chunks) |-> "none"]
    /\ finish_order = <<>>
    /\ m_run = 1
    /\ m_first = <<>>
    /\ mpc = "create"

total_files == Len(m_chunks)

\* taking the newest pending task (pop) instead of the oldest
newest_pending(p) == Len(p)

\* merge.rs:77: pending_tasks.remove(0) takes the oldest pending task
oldest_pending(p) == 1

\* a spawning loop that lets one task more than the window in
window_has_room_wide(p, w, ci, total) == Len(p) <= w /\ ci < total

\* merge.rs:43: the condition of the inner (spawning) loop
window_has_room(p, w, ci, total) == Len(p) < w /\ ci < total

\* an error path that deletes the partial output
removed_on_error(content) == {NoArchive}

\* merge.rs:78-82: `??` and `?` return without the flush of merge.rs:86; the
\* BufWriter is dropped with the file left in place, holding what had
\* reached it: some prefix of the bytes written so far
dropped_unflushed(content) ==
    {TarFile(SubSeq(content, 1, n)) : n \in 0..Len(content)}

\* opening the output for appending: what was in the file stays
file_open_append(old) == TarFile(IF old.exists THEN old.content ELSE <<>>)

\* merge.rs:28: File::create makes the file, or truncates the one that is there
file_create(old) == TarFile(<<>>)

\* merge.rs:28: the output file is created before any chunk is read
MergeCreate ==
    /\ mpc = "create"
    /\ tar_file' = file_create(tar_file)
    /\ mpc' = "loop"
    /\ UNCHANGED <<m_chunks, window_size, current_index, pending_tasks, mtask,
                   finish_order, m_run, m_first, ovars, cvars, xvars>>

\* merge.rs:43-73: one iteration of the inner loop, spawn_blocking
MergeSpawn ==
    /\ mpc = "loop"
    /\ window_has_room(pending_tasks, window_size, current_index, total_files)
    /\ mtask' = [mtask EXCEPT ![current_index + 1] = "running"]
    /\ pending_tasks' = Append(pending_tasks, current_index + 1)
    /\ current_index' = current_index + 1
    /\ UNCHANGED <<m_chunks, window_size, tar_file, finish_order, m_run,
                   m_first, mpc, ovars, cvars, xvars>>

\* merge.rs:48-69: a decompression task runs to its end on the blocking pool
MergeTaskFinish(i) ==
    /\ mtask[i] = "running"
    /\ mtask' = [mtask EXCEPT ![i] = IF gz_decode(m_chunks[i]).ok THEN "ok" ELSE "err"]
    /\ finish_order' = Append(finish_order, i)
    /\ UNCHANGED <<m_chunks, window_size, current_index, pending_tasks,
                   tar_file, m_run, m_first, mpc, ovars, cvars, xvars>>

\* merge.rs:76-84: await the oldest pending task and write its buffer
MergeJoin ==
    /\ mpc = "loop"
    /\ ~window_has_room(pending_tasks, window_size, current_index, total_files)
    /\ pending_tasks # <<>>
    /\ LET at == oldest_pending(pending_tasks)
           i == pending_tasks[at]
       IN /\ mtask[i] \in {"ok", "err"}
          /\ pending_tasks' = [j \in 1..(Len(pending_tasks) - 1) |->
                                  IF j < at THEN pending_tasks[j]
                                  ELSE pending_tasks[j + 1]]
          /\ IF mtask[i] = "ok"
             THEN /\ tar_file' = TarFile(tar_file.content \o gz_decode(m_chunks[i]).bytes)
                  /\ UNCHANGED mpc
             ELSE \* `??` returns; the BufWriter is dropped without a flush
                  /\ tar_file' \in dropped_unflushed(tar_file.content)
                  /\ mpc' = "err"
    /\ UNCHANGED <<m_chunks, window_size, current_index, mtask, finish_order,
                   m_run, m_first, ovars, cvars, xvars>>

\* merge.rs:41, 86-93: the outer loop ends, flush, Ok(())
MergeFlush ==
    /\ mpc = "loop"
    /\ ~(current_index < total_files \/ pending_tasks # <<>>)
    /\ mpc' = "done"
    /\ UNCHANGED <<m_chunks, window_size, current_index, pending_tasks, mtask,
                   tar_file, finish_order, m_run, m_first, ovars, cvars, xvars>>

\* The chunk files as a new download stage leaves them: a file that does not
\* decompress is fetched again, a file that does is kept.
redownloaded(chunks) ==
    [i \in 1..Len(chunks) |->
        IF gz_decode(chunks[i]).ok THEN chunks[i] ELSE RemoteObject("c")]

\* orchestrator.rs:157-174 in a later invocation of the program: merge_chunks
\* is called again for the same output path, over the chunk files as they are
\* then; nothing of the earlier call is left but the output file
MergeAgain ==
    /\ mpc \in {"done", "err"}
    /\ m_run = 1
    /\ m_run' = 2
    /\ m_first' = [chunks |-> m_chunks, tar |-> tar_file, res |-> mpc]
    /\ m_chunks' \in {m_chunks, redownloaded(m_chunks)}
    /\ current_index' = 0
    /\ pending_tasks' = <<>>
    /\ mtask' = [i \in 1..Len(m_chunks) |-> "none"]
    /\ finish_order' = <<>>
    /\ mpc' = "create"
    /\ UNCHANGED <<window_size, tar_file, ovars, cvars, xvars>>

NextMerge ==
    \/ MergeCreate
    \/ MergeSpawn
    \/ \E i \in DOMAIN mtask : MergeTaskFinish(i)
    \/ MergeJoin
    \/ MergeFlush
    \/ MergeAgain

SpecMerge == InitMerge /\ [][NextMerge]_vars

(***************************************************************************)
(* Termination.  The binary ends the process when download_snapshots       *)
(* returns an error (main.rs:151-160, std::process::exit), and with it     *)
(* every task that was spawned and not yet finished.  SpecLive is the      *)
(* orchestrator (on the shards of SpecLong) and merge_chunks, each under   *)
(* weak fairness of every step the runtime schedules: a step that stays    *)
(* possible is eventually taken, and every request returns.  Starting the  *)
(* program or the merge again is the user's choice and carries no          *)
(* fairness.                                                               *)
(***************************************************************************)
ProcessExit ==
    /\ pc = "err"
    /\ pc' = "exited"
    /\ tasks' = [j \in DOMAIN tasks |->
                    IF tasks[j].st \in {"waiting", "running"}
                    THEN [tasks[j] EXCEPT !.st = "killed"] ELSE tasks[j]]
    /\ UNCHANGED <<stage, shard_ids, max_concurrent_downloads, skip_verify,
                   initialMeta, invocation, fetched, verified, failure_hist,
                   workdir, metaFile, files, archive, target, all_metadata,
                   idx, k, filenames_in_order, download_tasks, joinIdx,
                   local_chunks, permits, phaseLog, netUsed, mvars, cvars,
                   xvars>>

InitLive == InitLong \/ InitMerge

NextLive == Next \/ NextMerge \/ ProcessExit

Fairness ==
    /\ WF_vars(Start \/ FetchMetadata \/ Persist \/ BeginShard \/ VerifyChunk
                  \/ JoinTask \/ DownloadReturns \/ Merge \/ Extract \/ Finish)
    /\ \A j \in 1..MaxChunks :
          /\ WF_vars(j \in DOMAIN tasks /\ TaskAcquire(j))
          /\ WF_vars(j \in DOMAIN tasks /\ TaskAttempt(j))
    /\ WF_vars(ProcessExit)
    /\ WF_vars(MergeCreate \/ MergeSpawn \/ MergeJoin \/ MergeFlush)
    /\ \A i \in 1..MaxChunks :
          WF_vars(i \in DOMAIN mtask /\ MergeTaskFinish(i))

SpecLive == InitLive /\ [][NextLive]_vars /\ Fairness

(***************************************************************************)
(* Properties.                                                             *)
(***************************************************************************)
StagePhases(st) ==
    CASE st = "All" -> <<"download", "merge", "extract">>
      [] st = "DownloadOnly" -> <<"download">>
      [] st = "MergeOnly" -> <<"merge">>
      [] st = "ExtractOnly" -> <<"extract">>

\* The download, merge and extract entries of the log, oldest first.
PhaseEntries ==
    LET IsPhase(e) == e.phase # "metadata" IN SelectSeq(phaseLog, IsPhase)

ShardEntries(s) ==
    LET OfShard(e) == e.shard = s IN SelectSeq(PhaseEntries, OfShard)

PhaseNames(L) == [i \in 1..Len(L) |-> L[i].phase]

DownloadsReturnedOk ==
    LET IsOk(e) == e.phase = "download" /\ e.res = "ok"
    IN SelectSeq(phaseLog, IsOk)

DownloadEntries ==
    LET IsDownload(e) == e.phase = "download" IN SelectSeq(phaseLog, IsDownload)

PositionOf(s) == CHOOSE p \in 1..Len(shard_ids) : shard_ids[p] = s

Running == {j \in DOMAIN tasks : tasks[j].st = "running"}

Unfinished == {j \in DOMAIN tasks : tasks[j].st \in {"waiting", "running"}}

\* C1: the path list the download stage returns for a shard is, position by
\* position, <workdir>/shard-<id>/<chunk> for the chunks of its metadata in
\* manifest order, whatever was already valid and however the tasks finished;
\* while the stage runs, the list built so far is a prefix of that list.
C1_PathsInManifestOrder ==
    /\ DownloadsReturnedOk # <<>> =>
         LET s == Last(DownloadsReturnedOk).shard
             chunks == all_metadata[s]
         IN local_chunks = [i \in 1..Len(chunks) |-> <<s, chunks[i]>>]
    /\ pc \in {"verify", "join"} =>
         /\ Len(filenames_in_order) = k - 1
         /\ \A i \in 1..Len(filenames_in_order) :
              filenames_in_order[i] = <<CurShard, CurChunks[i]>>

\* C1 witness: the stage returned for shard 0 with its first chunk already
\* valid and its second downloaded after a failed attempt.
C1_Witness ==
    /\ pc = "merge"
    /\ stage = "All"
    /\ CurShard = 0
    /\ DOMAIN tasks = {1, 2}
    /\ tasks[1].st = "none"
    /\ tasks[2].st = "ok"
    /\ tasks[2].attempts > 1
    /\ Len(local_chunks) = 2

\* C2: a successful merge_chunks has written exactly the decompressed payloads
\* of the chunks, each once, concatenated in list order, for every window
\* size and every order in which the decompression tasks finish.
C2_MergeIsOrderedConcatenation ==
    mpc = "done" =>
        /\ tar_file.exists
        /\ tar_file.content =
             Flatten([i \in 1..Len(m_chunks) |-> gz_decode(m_chunks[i]).bytes])
        /\ \A i \in 1..Len(m_chunks) : gz_decode(m_chunks[i]).ok

\* C2 witness: three different chunks merged with a window above one, the
\* second decompression finishing before the first.
C2_Witness ==
    /\ mpc = "done"
    /\ m_chunks = <<RemoteObject("a"), RemoteObject("b"), RemoteObject("c")>>
    /\ window_size > 1
    /\ finish_order[1] = 2

\* C3: at every moment the number of download tasks holding a permit is at
\* most max_concurrent_downloads.
C3_TransfersBounded ==
    Cardinality(Running) <= max_concurrent_downloads

\* C3 witness: with one permit, one task transfers while another waits.
C3_Witness ==
    /\ max_concurrent_downloads = 1
    /\ \E i, j \in DOMAIN tasks :
         tasks[i].st = "running" /\ tasks[j].st = "waiting"

C5_NoTaskLeftOnError ==
    (pc = "err" /\ phaseLog # <<>> /\ Last(phaseLog).phase = "download")
        => Unfinished = {}

\* C6: when download_snapshots has returned, the working directory is gone
\* if and only if the stage was All and the run succeeded.
C6_WorkdirRemovedIffAllSucceeded ==
    pc \in {"ok", "err"} => (~workdir <=> (stage = "All" /\ pc = "ok"))

\* C7: the phases run for a shard are those of the stage, in the order
\* download, merge, extract, and no other phase is started; a successful run
\* has run all of them for every requested shard.
C7_PhasesFollowStage ==
    \A s \in Shards :
        /\ IsPrefix(PhaseNames(ShardEntries(s)), StagePhases(stage))
        /\ (pc = "ok" /\ s \in Range(shard_ids)) =>
              PhaseNames(ShardEntries(s)) = StagePhases(stage)

\* C7 witness: an All run over two shards has succeeded.
C7_Witness ==
    /\ pc = "ok"
    /\ stage = "All"
    /\ Len(shard_ids) = 2
    /\ Len(PhaseEntries) = 6

\* C8: shards are processed one at a time in the order of shard_ids: a phase
\* of a shard is started only after all phases of the stage have completed
\* successfully for every shard before it in the list, and never before a
\* phase of an earlier shard.
C8_ShardsSequentialInListOrder ==
    \A i \in 1..Len(PhaseEntries) :
        LET s == PhaseEntries[i].shard IN
        /\ s \in Range(shard_ids)
        /\ \A j \in 1..(i - 1) :
             PositionOf(PhaseEntries[j].shard) <= PositionOf(s)
        /\ \A p \in 1..(PositionOf(s) - 1) :
             LET L == ShardEntries(shard_ids[p]) IN
             /\ PhaseNames(L) = StagePhases(stage)
             /\ \A n \in 1..Len(L) : L[n].res = "ok"

\* C8 witness: shards given as 1, 0 have both been processed, 1 first.
C8_Witness ==
    /\ shard_ids = <<1, 0>>
    /\ stage = "All"
    /\ pc = "ok"
    /\ PhaseEntries[1].shard = 1
    /\ Last(PhaseEntries).shard = 0

\* C9: a failed phase makes the run return an error with no later phase
\* started; a download stage returns Ok only when none of its tasks failed;
\* Ok(()) is returned only if every phase of the stage succeeded for every
\* requested shard.
C9_FailureStopsTheRun ==
    /\ \A i \in 1..Len(phaseLog) :
         phaseLog[i].res = "err" => (pc = "err" /\ i = Len(phaseLog))
    /\ (phaseLog # <<>> /\ Last(phaseLog).phase = "download"
           /\ Last(phaseLog).res = "started" /\ pc # "err")
         => \A n \in 1..(joinIdx - 1) :
               n <= Len(download_tasks) => tasks[download_tasks[n]].st = "ok"
    /\ (DownloadEntries # <<>> /\ Last(DownloadEntries).res = "ok")
         => \A j \in DOMAIN tasks : tasks[j].st \in {"none", "ok"}
    /\ pc = "ok" =>
         /\ \A i \in 1..Len(phaseLog) : phaseLog[i].res = "ok"
         /\ \A s \in Range(shard_ids) :
              PhaseNames(ShardEntries(s)) = StagePhases(stage)

\* C9 witness: the download of the first of two shards failed and the run
\* returned the error.
C9_Witness ==
    /\ pc = "err"
    /\ Len(shard_ids) = 2
    /\ Last(phaseLog) = LogEntry(shard_ids[1], "download", "err")

\* The run found a metadata.json holding metadata for every requested shard.
MetadataPersisted ==
    /\ initialMeta.kind = "json"
    /\ Range(shard_ids) \subseteq DOMAIN from_str(initialMeta.doc)

\* C10: in MergeOnly and ExtractOnly, with a metadata.json that holds every
\* requested shard, the run issues no network request; ExtractOnly with the
\* archives in place then never fails, whatever chunk files exist.
C10_NoNetworkWithPersistedMetadata ==
    /\ (stage \in {"MergeOnly", "ExtractOnly"} /\ MetadataPersisted)
         => netUsed = {}
    /\ (stage = "ExtractOnly" /\ MetadataPersisted
          /\ \A s \in Range(shard_ids) : archive[s].exists)
         => pc \notin {"err", "panic", "fetch"}

\* C10 witness: ExtractOnly succeeded for two shards with no chunk file on
\* disk and no request issued.
C10_Witness ==
    /\ stage = "ExtractOnly"
    /\ pc = "ok"
    /\ Len(shard_ids) = 2
    /\ MetadataPersisted
    /\ \A key \in ChunkKeys : ~files[key].exists
    /\ netUsed = {}
    /\ target # {}

\* C11: in MergeOnly and ExtractOnly a metadata.json that loads but has no
\* entry for a requested shard does not let the run into the shard loop:
\* whenever the run is in the shard loop or past it, all_metadata has an
\* entry for every requested shard, and the run never ends in a panic.
C11_LoadedMetadataCoversShards ==
    (/\ stage \in {"MergeOnly", "ExtractOnly"}
     /\ initialMeta.kind = "json"
     /\ pc \in {"shard", "verify", "join", "merge", "extract", "ok", "panic"})
    => (/\ pc # "panic"
        /\ \A i \in 1..Len(shard_ids) : shard_ids[i] \in DOMAIN all_metadata)

(***************************************************************************)
(* Header values.  An ETag header is absent, or is not text (to_str()      *)
(* fails and .ok() makes it None), or is a string; verify.rs:133-137 and   *)
(* download.rs:42-46 strip the double quotes around it, and a tag that     *)
(* contains '-' is a multipart tag, not a digest.                          *)
(***************************************************************************)
MaxEtagLen == 3     \* ETag header values have at most MaxEtagLen characters
MaxSize == 2        \* file sizes and content-lengths range over 0..MaxSize

Quote == "\""

Dash == "-"

HexChars == {"0", "f"}

RECURSIVE trim_start_matches(_, _)
trim_start_matches(s, c) ==
    IF s # <<>> /\ Head(s) = c THEN trim_start_matches(Tail(s), c) ELSE s

RECURSIVE trim_end_matches(_, _)
trim_end_matches(s, c) ==
    IF s # <<>> /\ Last(s) = c
    THEN trim_end_matches(SubSeq(s, 1, Len(s) - 1), c) ELSE s

trim_matches(s, c) == trim_end_matches(trim_start_matches(s, c), c)

contains(s, c) == \E i \in 1..Len(s) : s[i] = c

NoHeader == [present |-> FALSE, readable |-> FALSE, value |-> <<>>]
OpaqueHeader == [present |-> TRUE, readable |-> FALSE, value |-> <<>>]
HeaderOf(v) == [present |-> TRUE, readable |-> TRUE, value |-> v]

\* reading the header without stripping the quotes
etag_of_untrimmed(h) ==
    IF ~h.present \/ ~h.readable THEN NoEtag
    ELSE IF contains(h.value, Dash) THEN MultipartEtag
    ELSE Md5Etag(h.value)

\* verify.rs:133-140: headers().get("etag"), to_str().ok(), trim_matches('"')
etag_of(h) ==
    IF ~h.present \/ ~h.readable THEN NoEtag
    ELSE IF contains(trim_matches(h.value, Quote), Dash) THEN MultipartEtag
    ELSE Md5Etag(trim_matches(h.value, Quote))

(***************************************************************************)
(* SpecVerify: one call of verify_local_file, verify.rs:67-178.            *)
(* call_args = [file, skip_verify, head, md5ok]: the local file, the flag, *)
(* what the remote answers to HEAD, and whether compute_file_md5 can read  *)
(* the file.  The digest of a file is a string of hex characters.          *)
(***************************************************************************)
Digests == {<<"0">>, <<"f">>, <<"0", "f">>}

LocalFiles ==
    {[exists |-> FALSE, size |-> 0, md5 |-> <<>>]}
    \cup [exists : {TRUE}, size : 0..MaxSize, md5 : Digests]

EtagHeaders ==
    {NoHeader, OpaqueHeader}
    \cup {HeaderOf(v) : v \in SeqsUpTo({Quote, Dash} \cup HexChars, MaxEtagLen)}

\* len is content-length as parsed: NoLength if absent or not a number
RawHeadResponses ==
    {[kind |-> "transport", len |-> NoLength, etag |-> NoHeader],
     [kind |-> "status", len |-> NoLength, etag |-> NoHeader]}
    \cup [kind : {"ok"}, len : {NoLength} \cup 0..MaxSize, etag : EtagHeaders]

InitVerify ==
    /\ OrchestratorIdle
    /\ MergeIdle
    /\ ExtractIdle
    /\ call_args \in [file : LocalFiles, skip_verify : BOOLEAN,
                      head : RawHeadResponses, md5ok : BOOLEAN]
    /\ call_result = <<>>
    /\ call_pc = "verify"

VerifyCall ==
    /\ call_pc = "verify"
    /\ LET head == HeadResponse(call_args.head.kind, call_args.head.len,
                                etag_of(call_args.head.etag))
           result == Ok(verify_local_file(call_args.file,
                                          call_args.skip_verify, head,
                                          call_args.md5ok))
       IN call_result' =
            [ok |-> result.ok,
             valid |-> result.valid,
             head_issued |-> verify_issues_head(call_args.file,
                                                call_args.skip_verify)]
    /\ call_pc' = "verify_returned"
    /\ UNCHANGED <<call_args, ovars, mvars, xvars>>

NextVerify == VerifyCall

SpecVerify == InitVerify /\ [][NextVerify]_vars

\* C12: with skip_verify set, verify_local_file answers valid for every
\* existing file, whatever its size and digest, and sends no HEAD request;
\* for an absent file it answers not valid.
C12_SkipVerifyTrustsExistingFiles ==
    (call_pc = "verify_returned" /\ call_args.skip_verify)
    => /\ call_result.valid = call_args.file.exists
       /\ ~call_result.head_issued

\* C12 witness: an existing file whose size disagrees with the remote
\* content-length was answered valid under skip_verify.
C12_Witness ==
    /\ call_pc = "verify_returned"
    /\ call_args.skip_verify
    /\ call_args.file.exists
    /\ call_args.head.kind = "ok"
    /\ call_args.head.len # call_args.file.size
    /\ call_result.valid
    /\ ~call_result.head_issued

\* C13: without skip_verify, verify_local_file answers valid exactly if the
\* file exists, HEAD succeeds with a success status, content-length is
\* present and equals the local size, and the entity tag (the header value
\* without its quotes) is absent, or contains '-', or equals the MD5 hex
\* digest of the local file; so a file that passes with a tag that is not
\* multipart has that tag as its digest.
C13_ValidIffSizeAndDigestAgree ==
    (call_pc = "verify_returned" /\ ~call_args.skip_verify)
    => LET f == call_args.file
           h == call_args.head
           tag == trim_matches(h.etag.value, Quote)
           tagAbsent == ~h.etag.present \/ ~h.etag.readable
       IN /\ call_result.valid <=>
                /\ f.exists
                /\ h.kind = "ok"
                /\ h.len # NoLength
                /\ h.len = f.size
                /\ \/ tagAbsent
                   \/ contains(tag, Dash)
                   \/ (call_args.md5ok /\ tag = f.md5)
          /\ (call_result.valid /\ ~tagAbsent /\ ~contains(tag, Dash))
                => tag = f.md5

\* C13 witness: a file passed on a quoted digest tag equal to its MD5.
C13_Witness ==
    /\ call_pc = "verify_returned"
    /\ ~call_args.skip_verify
    /\ call_result.valid
    /\ call_result.head_issued
    /\ call_args.head.etag.readable
    /\ Len(call_args.head.etag.value) = 3
    /\ call_args.head.etag.value[1] = Quote
    /\ call_args.head.etag.value[3] = Quote
    /\ call_args.head.etag.value[2] = call_args.file.md5[1]

(***************************************************************************)
(* SpecDownload: one call of download_file_simple, download.rs:22-113.     *)
(* call_args = [old, resp]: the file at the local path before the attempt  *)
(* and what the remote answers to GET (status, content-length, ETag        *)
(* header, the bytes it streams, whether the stream ends without error).   *)
(* call_result.file is the file at the local path when the call returns.   *)
(***************************************************************************)
StreamedBodies == [exists : {TRUE}, size : 0..MaxSize, md5 : Digests]

RawGetResponses ==
    {[kind |-> kind, len |-> NoLength, etag |-> NoHeader,
      body |-> [exists |-> TRUE, size |-> 0, md5 |-> <<"0">>],
      streamOk |-> FALSE] : kind \in {"transport", "status"}}
    \cup [kind : {"ok"}, len : {NoLength} \cup 0..MaxSize, etag : EtagHeaders,
          body : StreamedBodies, streamOk : BOOLEAN]

InitDownload ==
    /\ OrchestratorIdle
    /\ MergeIdle
    /\ ExtractIdle
    /\ call_args \in [old : {f \in LocalFiles : ~f.exists \/ f.size = MaxSize},
                      resp : RawGetResponses]
    /\ call_result = <<>>
    /\ call_pc = "download"

DownloadCall ==
    /\ call_pc = "download"
    /\ LET r == call_args.resp IN
       call_result' = download_file_simple(
            GetResponse(r.kind, r.len, etag_of(r.etag), r.body, r.streamOk))
    /\ call_pc' = "download_returned"
    /\ UNCHANGED <<call_args, ovars, mvars, xvars>>

NextDownload == DownloadCall

SpecDownload == InitDownload /\ [][NextDownload]_vars

\* download.rs:90-97: the attempt got as far as finalizing the MD5 of the
\* streamed bytes, and it differs from a tag that is not multipart.
DigestMismatch ==
    /\ call_args.resp.kind = "ok"
    /\ call_args.resp.streamOk
    /\ call_args.resp.len \in {NoLength, call_args.resp.body.size}
    /\ etag_of(call_args.resp.etag).kind = "md5"
    /\ etag_of(call_args.resp.etag).md5 # call_args.resp.body.md5

\* C14: when an attempt computes the MD5 of the streamed bytes and it differs
\* from a non-multipart entity tag, the attempt fails with the data error
\* and the local file is gone when the error is returned.
C14_DigestMismatchDeletesFile ==
    (call_pc = "download_returned" /\ DigestMismatch)
    => /\ ~call_result.ok
       /\ call_result.err = "IoError"
       /\ ~call_result.file.exists

\* C14 witness: a body of the declared length whose digest differs from the
\* quoted tag was streamed over an existing file; the path is empty after.
C14_Witness ==
    /\ call_pc = "download_returned"
    /\ DigestMismatch
    /\ call_args.old.exists
    /\ call_args.resp.len = call_args.resp.body.size
    /\ call_args.resp.body.size > 0
    /\ Len(call_args.resp.etag.value) = 3
    /\ call_args.resp.etag.value[1] = Quote
    /\ ~call_result.ok
    /\ ~call_result.file.exists

\* C15: when an attempt fails for another reason than a digest mismatch
\* (the request or the stream fails, or the byte count differs from the
\* declared content-length), no file is left at the local path when the
\* failure is returned.
C15_NoFileLeftAfterOtherFailure ==
    (call_pc = "download_returned" /\ ~call_result.ok /\ ~DigestMismatch)
    => ~call_result.file.exists

(***************************************************************************)
(* sst_verify.rs.  A u64 is the sequence of its 8 base-256 digits, most    *)
(* significant first (the order of the hex literal); a file on disk is its *)
(* bytes and whether it can be opened and read.                            *)
(***************************************************************************)
MaxPrefix == 2      \* bytes in front of the last 8 bytes of an .sst file

MagicLen == 8

\* sst_verify.rs:9: 0x88e241b785f4cff7
ROCKSDB_MAGIC_NUMBER == <<136, 226, 65, 183, 133, 244, 207, 247>>

\* reading the 8 bytes most significant first
u64_from_be_bytes(b) == b

\* sst_verify.rs:47: u64::from_le_bytes, the first byte is the least significant
u64_from_le_bytes(b) == [i \in 1..Len(b) |-> b[Len(b) + 1 - i]]

DiskFile(content, readable) == [content |-> content, readable |-> readable]

\* sst_verify.rs:29-51: Err is "error", Ok(true) "valid", Ok(false) "invalid"
verify_sst_magic_number(f) ==
    IF ~f.readable THEN "error"
    ELSE IF Len(f.content) < MagicLen THEN "invalid"
    ELSE IF u64_from_le_bytes(SubSeq(f.content, Len(f.content) - MagicLen + 1,
                                     Len(f.content))) = ROCKSDB_MAGIC_NUMBER
         THEN "valid"
         ELSE "invalid"

\* the magic number as RocksDB writes it at the end of a table file
MagicFooter == [i \in 1..MagicLen |-> ROCKSDB_MAGIC_NUMBER[MagicLen + 1 - i]]

SstTails ==
    {MagicFooter, ROCKSDB_MAGIC_NUMBER, [i \in 1..MagicLen |-> 0]}
    \cup {SubSeq(MagicFooter, j, MagicLen) : j \in 2..(MagicLen + 1)}
    \cup {[MagicFooter EXCEPT ![j] = 0] : j \in 1..MagicLen}

SstFiles ==
    {DiskFile(p \o tl, r) : p \in SeqsUpTo({0, 247}, MaxPrefix),
                            tl \in SstTails, r \in BOOLEAN}

InitSst ==
    /\ OrchestratorIdle
    /\ MergeIdle
    /\ ExtractIdle
    /\ call_args \in SstFiles
    /\ call_result = "none"
    /\ call_pc = "sst"

SstCall ==
    /\ call_pc = "sst"
    /\ call_result' = verify_sst_magic_number(call_args)
    /\ call_pc' = "sst_returned"
    /\ UNCHANGED <<call_args, ovars, mvars, xvars>>

NextSst == SstCall

SpecSst == InitSst /\ [][NextSst]_vars

\* Decimal digits of a number given by its base-256 digits: long division
\* by ten, most significant digit first.
RECURSIVE LongDiv10(_, _)
LongDiv10(ds, carry) ==
    IF ds = <<>> THEN [q |-> <<>>, r |-> carry]
    ELSE LET cur == carry * 256 + Head(ds)
             rest == LongDiv10(Tail(ds), cur % 10)
         IN [q |-> <<cur \div 10>> \o rest.q, r |-> rest.r]

RECURSIVE DecimalDigits(_)
DecimalDigits(ds) ==
    IF \A i \in 1..Len(ds) : ds[i] = 0 THEN <<>>
    ELSE DecimalDigits(LongDiv10(ds, 0).q) \o <<LongDiv10(ds, 0).r>>

\* the value of 8 bytes read little-endian: byte i weighs 256^(i-1)
LittleEndianValue(b) == [i \in 1..8 |-> b[9 - i]]

\* C19: verify_sst_magic_number answers valid exactly for a file of at
\* least 8 bytes whose last 8 bytes, read as a little-endian u64, are
\* 0x88E241B785F4CFF7 = 9863518390377041911; a readable file of fewer than
\* 8 bytes is answered invalid, not an error.
C19_ValidIffMagicInLastEightBytes ==
    /\ DecimalDigits(ROCKSDB_MAGIC_NUMBER)
         = <<9, 8, 6, 3, 5, 1, 8, 3, 9, 0, 3, 7, 7, 0, 4, 1, 9, 1, 1>>
    /\ (call_pc = "sst_returned" /\ call_args.readable)
       => LET n == Len(call_args.content) IN
          /\ call_result = "valid" <=>
                /\ n >= 8
                /\ DecimalDigits(LittleEndianValue(
                       SubSeq(call_args.content, n - 7, n)))
                     = <<9, 8, 6, 3, 5, 1, 8, 3, 9, 0, 3, 7, 7, 0, 4, 1, 9, 1, 1>>
          /\ call_result # "error"

\* C19 witness: a file of more than 8 bytes ending in the magic number was
\* answered valid.
C19_Witness ==
    /\ call_pc = "sst_returned"
    /\ call_args.readable
    /\ Len(call_args.content) > 8
    /\ call_args.content[Len(call_args.content)] = 136
    /\ call_result = "valid"

(***************************************************************************)
(* SpecResolve: one call of download_metadata, metadata.rs:32-78.          *)
(***************************************************************************)
StatusCodes == {200, 206, 301, 404, 500}

ResolveResponses ==
    {ManifestResponse("transport", 0, <<>>)}
    \cup {ManifestResponse("badjson", c, <<>>) : c \in StatusCodes}
    \cup {ManifestResponse("json", c, chunks) :
            c \in StatusCodes, chunks \in SeqsUpTo(ChunkNames, MaxChunks)}

InitResolve ==
    /\ OrchestratorIdle
    /\ MergeIdle
    /\ ExtractIdle
    /\ call_args \in ResolveResponses
    /\ call_result = <<>>
    /\ call_pc = "resolve"

ResolveCall ==
    /\ call_pc = "resolve"
    /\ call_result' = download_metadata(call_args)
    /\ call_pc' = "resolve_returned"
    /\ UNCHANGED <<call_args, ovars, mvars, xvars>>

NextResolve == ResolveCall

SpecResolve == InitResolve /\ [][NextResolve]_vars

\* C20: download_metadata fails with the tag NotFound on 404, with
\* DownloadFailed on any other status that is not a success, and with
\* InvalidFormat when the body of a success does not parse.
C20_ThreeDistinguishableErrors ==
    (call_pc = "resolve_returned" /\ call_args.kind # "transport")
    => /\ call_args.code = 404 => call_result.err = "NotFound"
       /\ call_args.code \notin (200..299) \cup {404}
            => call_result.err = "DownloadFailed"
       /\ (call_args.code \in 200..299 /\ call_args.kind = "badjson")
            => call_result.err = "InvalidFormat"

(***************************************************************************)
(* SpecExtract: extract_tar, extract.rs:24-160, called twice on the same   *)
(* archive and db_dir.  An archive is its entries in order; an entry is a  *)
(* directory or a file with a path and its bytes (the size in its header   *)
(* is the number of its bytes).  db_dir maps each path to what is there:   *)
(* nothing, a directory, or a file with its bytes, whether its metadata    *)
(* can be read and whether it can be opened.                               *)
(***************************************************************************)
MaxEntries == 3     \* an archive has at most MaxEntries entries

DirName == <<"d">>

DataName == <<"f">>

SstName == <<"t", ".", "s", "s", "t">>

Paths == {DirName, DataName, SstName}

DotSst == <<".", "s", "s", "t">>

ends_with(s, suffix) ==
    /\ Len(s) >= Len(suffix)
    /\ SubSeq(s, Len(s) - Len(suffix) + 1, Len(s)) = suffix

TarEntry(is_directory, path, content) ==
    [is_directory |-> is_directory, path |-> path, content |-> content]

\* extract.rs:50: entry.header().size()
expected_size(e) == Len(e.content)

TarEntries ==
    {TarEntry(TRUE, DirName, <<>>)}
    \cup {TarEntry(FALSE, DataName, c) : c \in {<<1>>, <<2>>, <<1, 2>>}}
    \cup {TarEntry(FALSE, SstName, c) :
            c \in {<<1>> \o MagicFooter, <<1>> \o ROCKSDB_MAGIC_NUMBER}}

NothingOnDisk ==
    [kind |-> "absent", content |-> <<>>, statable |-> FALSE, readable |-> FALSE]
DirOnDisk ==
    [kind |-> "dir", content |-> <<>>, statable |-> TRUE, readable |-> TRUE]
FileOnDisk(content) ==
    [kind |-> "file", content |-> content, statable |-> TRUE, readable |-> TRUE]

DirStates == {NothingOnDisk, DirOnDisk}

DataStates ==
    {NothingOnDisk, FileOnDisk(<<2>>), FileOnDisk(<<1, 2>>),
     [FileOnDisk(<<2>>) EXCEPT !.statable = FALSE]}

SstStates ==
    {NothingOnDisk, FileOnDisk(<<2>> \o MagicFooter),
     FileOnDisk(<<1>> \o ROCKSDB_MAGIC_NUMBER),
     [FileOnDisk(<<2>> \o MagicFooter) EXCEPT !.readable = FALSE]}

InitialTargets ==
    {[p \in Paths |-> IF p = DirName THEN d ELSE IF p = DataName THEN f ELSE s] :
        d \in DirStates, f \in DataStates, s \in SstStates}

\* an unpack that writes behind what is there instead of replacing it
unpack_in_appending(existing, e) ==
    IF e.is_directory THEN DirOnDisk
    ELSE FileOnDisk(existing.content \o e.content)

\* an unpack that creates the file and writes none of the entry's bytes
unpack_in_empty(existing, e) ==
    IF e.is_directory THEN DirOnDisk ELSE FileOnDisk(<<>>)

\* extract.rs:57, 130: entry.unpack_in(db_dir) replaces what is at the path
unpack_in(existing, e) ==
    IF e.is_directory THEN DirOnDisk ELSE FileOnDisk(e.content)

\* skipping on the size alone, for every file name
should_extract_entry_size_only(e, existing) ==
    IF existing.kind = "file"
    THEN IF existing.statable
         THEN expected_size(e) # Len(existing.content)
         ELSE TRUE
    ELSE TRUE

\* extract.rs:64-127: the value of should_extract for a file entry
should_extract_entry(e, existing) ==
    IF existing.kind = "file"
    THEN IF existing.statable
         THEN IF Len(existing.content) = expected_size(e)
              THEN IF ends_with(e.path, DotSst)
                   THEN verify_sst_magic_number(
                            DiskFile(existing.content, existing.readable))
                        # "valid"
                   ELSE FALSE
              ELSE TRUE
         ELSE TRUE
    ELSE TRUE

InitExtract ==
    /\ OrchestratorIdle
    /\ MergeIdle
    /\ CallIdle
    /\ x_archive \in SeqsUpTo(TarEntries, MaxEntries)
    /\ x_target \in InitialTargets
    /\ x_index = 0
    /\ file_count = 0
    /\ skipped_count = 0
    /\ extracted_count = 0
    /\ x_run = 1
    /\ x_last = [did |-> "none"]
    /\ x_first = <<>>
    /\ x_initial = x_target
    /\ xpc = "entries"

\* extract.rs:40-144: one iteration of the loop over the entries
ExtractEntry ==
    /\ xpc = "entries"
    /\ x_index < Len(x_archive)
    /\ LET e == x_archive[x_index + 1]
           existing == x_target[e.path]
           did == IF e.is_directory THEN "unpacked"
                  ELSE IF should_extract_entry(e, existing) THEN "extracted"
                  ELSE "skipped"
       IN /\ file_count' = x_index + 1
          /\ x_target' = IF did = "skipped" THEN x_target
                         ELSE [x_target EXCEPT ![e.path] = unpack_in(existing, e)]
          /\ skipped_count' = skipped_count + (IF did = "skipped" THEN 1 ELSE 0)
          /\ extracted_count' =
                extracted_count + (IF did = "extracted" THEN 1 ELSE 0)
          /\ x_last' = [did |-> did, entry |-> e, met |-> existing]
    /\ x_index' = x_index + 1
    /\ UNCHANGED <<x_archive, x_run, x_first, x_initial, xpc, ovars, mvars,
                   cvars>>

\* extract.rs:146-159: the loop is over, Ok(())
ExtractReturn ==
    /\ xpc = "entries"
    /\ x_index = Len(x_archive)
    /\ xpc' = "returned"
    /\ x_first' = IF x_run = 1
                  THEN [target |-> x_target, file_count |-> file_count,
                        skipped_count |-> skipped_count,
                        extracted_count |-> extracted_count]
                  ELSE x_first
    /\ UNCHANGED <<x_archive, x_target, x_index, file_count, skipped_count,
                   extracted_count, x_run, x_last, x_initial, ovars, mvars,
                   cvars>>

\* extract.rs:30-37: extract_tar is called again, same archive, same db_dir
ExtractAgain ==
    /\ xpc = "returned"
    /\ x_run = 1
    /\ x_run' = 2
    /\ x_index' = 0
    /\ file_count' = 0
    /\ skipped_count' = 0
    /\ extracted_count' = 0
    /\ x_last' = [did |-> "none"]
    /\ xpc' = "entries"
    /\ UNCHANGED <<x_archive, x_target, x_first, x_initial, ovars, mvars,
                   cvars>>

NextExtract ==
    \/ ExtractEntry
    \/ ExtractReturn
    \/ ExtractAgain

SpecExtract == InitExtract /\ [][NextExtract]_vars

\* x_last.met is a regular file of the entry's size that, when the entry's
\* name ends in .sst, also passes the magic-number check.
MetAcceptableFile ==
    /\ x_last.met.kind = "file"
    /\ x_last.met.statable
    /\ Len(x_last.met.content) = Len(x_last.entry.content)
    /\ \/ ~ends_with(x_last.entry.path, DotSst)
       \/ verify_sst_magic_number(
              DiskFile(x_last.met.content, x_last.met.readable)) = "valid"

C17_ExtractionIdempotent ==
    (x_run = 2 /\ xpc = "returned") => x_target = x_first.target

\* C17 witness: a second run that extracted an entry and skipped another
\* has returned.
C17_Witness ==
    /\ x_run = 2
    /\ xpc = "returned"
    /\ extracted_count > 0
    /\ skipped_count > 0
    /\ x_target = x_first.target

\* C18: when the second run returns, its skipped count equals its total
\* file count and its extracted count is zero.
C18_SecondRunSkipsEveryFile ==
    (x_run = 2 /\ xpc = "returned")
    => /\ skipped_count = file_count
       /\ extracted_count = 0

\* C21: every manifest the pipeline holds for a shard has a non-empty chunks
\* list, and no download, merge or extract phase is started for a shard whose
\* manifest has an empty chunks list.
C21_ManifestsHaveChunks ==
    /\ \A s \in DOMAIN all_metadata : all_metadata[s] # <<>>
    /\ \A i \in 1..Len(PhaseEntries) :
         PhaseEntries[i].shard \in DOMAIN all_metadata
            => all_metadata[PhaseEntries[i].shard] # <<>>

Attempted(j) == tasks[j].attempts > 0 \/ tasks[j].st = "running"

\* C23: when a chunk of the shard has failed on every attempt and the run has
\* returned the error, no merge or extract was started for that shard and
\* every chunk before the failing one in manifest order that needed a
\* download has had its download attempted.
C23_FailedChunkStopsShard ==
    (/\ pc = "err"
     /\ phaseLog # <<>>
     /\ Last(phaseLog).phase = "download"
     /\ Last(phaseLog).res = "err")
        => /\ PhaseNames(ShardEntries(Last(phaseLog).shard)) = <<"download">>
           /\ \A j \in DOMAIN tasks :
                tasks[j].st = "failed" =>
                    \A i \in 1..(j - 1) :
                        tasks[i].st # "none" => Attempted(i)

\* extract_tar has returned from its first run, which found db_dir empty.
ExtractedIntoEmpty ==
    /\ x_run = 1
    /\ xpc = "returned"
    /\ \A p \in Paths : x_initial[p] = NothingOnDisk

\* Every file entry of the archive is at its path with the entry's bytes.
EveryFileEntryInTarget ==
    \A i \in DOMAIN x_archive :
        ~x_archive[i].is_directory
            => x_target[x_archive[i].path] = FileOnDisk(x_archive[i].content)

\* No two file entries of the archive have the same path.
FilePathsDistinct ==
    \A i, j \in DOMAIN x_archive :
        (i # j /\ ~x_archive[i].is_directory /\ ~x_archive[j].is_directory)
            => x_archive[i].path # x_archive[j].path

\* C24 as stated: after extraction into an initially empty target directory
\* every file entry of the archive exists at its path with the entry's bytes.
C24_EveryEntryExtracted ==
    ExtractedIntoEmpty => EveryFileEntryInTarget

\* C24 amended: after extraction into an initially empty target directory
\* every file entry of an archive whose file entries have pairwise distinct
\* paths exists at its path with the entry's bytes.
C24_EveryEntryOfDistinctPathsExtracted ==
    (ExtractedIntoEmpty /\ FilePathsDistinct) => EveryFileEntryInTarget

\* C24 witness: an archive of a directory, a data file and an .sst file was
\* extracted into an empty target directory.
C24_Witness ==
    /\ ExtractedIntoEmpty
    /\ FilePathsDistinct
    /\ Len(x_archive) = 3
    /\ {x_archive[i].path : i \in DOMAIN x_archive} = Paths
    /\ extracted_count = 2

\* What the remote holds for a shard: the payloads of the chunks of the
\* manifest it served, concatenated in manifest order.
RemoteArchive(s) ==
    TarFile(Flatten([i \in 1..Len(fetched[s]) |-> GzPayload(fetched[s][i])]))

RemoteEntries ==
    UNION {Range(RemoteArchive(s).content) : s \in Range(shard_ids)}

\* The archives and the target directory are those determined by the remote.
ResultIsRemote ==
    /\ \A s \in Range(shard_ids) : archive[s] = RemoteArchive(s)
    /\ target = RemoteEntries

\* C25: DownloadOnly, MergeOnly and ExtractOnly run one after the other with
\* the same arguments leave the same per-shard archives and the same target
\* directory as one All run: both leave exactly what the remote determines.
C25_StagedRunsEqualAll ==
    /\ (stage = "All" /\ pc = "ok") => ResultIsRemote
    /\ (stage = "ExtractOnly" /\ invocation > 1 /\ pc = "ok") => ResultIsRemote

\* C25 witness: the third of the staged invocations has succeeded for two
\* shards whose manifests list all their chunks.
C25_Witness ==
    /\ stage = "ExtractOnly"
    /\ invocation = 3
    /\ pc = "ok"
    /\ Len(shard_ids) = 2
    /\ \A s \in Range(shard_ids) : fetched[s] = Manifest(s)
    /\ ResultIsRemote

(***************************************************************************)
(* SpecVerdicts: the three places where a verification verdict is formed   *)
(* and acted upon: one call of verify_local_file (SpecVerify), the chunk   *)
(* loop of a download stage (SpecLong) and extract_tar (SpecExtract).      *)
(* Each behaviour is a behaviour of one of the three.                      *)
(***************************************************************************)
InitVerdicts == InitVerify \/ InitLong \/ InitExtract

NextVerdicts == NextVerify \/ Next \/ NextExtract

SpecVerdicts == InitVerdicts /\ [][NextVerdicts]_vars

\* The HEAD request of the call failed or lacks content-length, or the tag
\* calls for the MD5 of the file and compute_file_md5 failed.
VerificationFailed ==
    LET h == call_args.head
        tag == trim_matches(h.etag.value, Quote)
        tagAbsent == ~h.etag.present \/ ~h.etag.readable
    IN \/ h.kind # "ok"
       \/ h.len = NoLength
       \/ (~tagAbsent /\ ~contains(tag, Dash) /\ ~call_args.md5ok)

\* The entry just handled is an .sst file that met a file of its size whose
\* magic number could not be read.
MetUnreadableSst ==
    /\ x_last.did # "none"
    /\ ~x_last.entry.is_directory
    /\ ends_with(x_last.entry.path, DotSst)
    /\ x_last.met.kind = "file"
    /\ x_last.met.statable
    /\ Len(x_last.met.content) = Len(x_last.entry.content)
    /\ ~x_last.met.readable

PassedVerification ==
    {j \in DOMAIN verified : verified[j].ok /\ verified[j].valid}

\* C27: a chunk whose local file passed verification is not scheduled for
\* download in that run: no download task exists for that chunk (so no
\* permit is taken and no GET is issued for it), no join handle, and its
\* local file stays the file that passed (without skip_verify: a file with
\* the size and the digest of the remote object).
C27_ValidChunkLeftAlone ==
    (pc # "shard" /\ idx \in 1..Len(shard_ids)) =>
        \A j \in PassedVerification :
            /\ \A i \in DOMAIN tasks :
                  CurChunks[i] = CurChunks[j]
                     => (tasks[i] = NoTask /\ i \notin Range(download_tasks))
            /\ ~skip_verify =>
                  files[chunk_path(CurShard, CurChunks[j])]
                     = RemoteObject(CurChunks[j])

\* C28: in merge_chunks at most window_size decompression tasks are in
\* flight; the tasks are started in chunk order (the chunks started are the
\* first current_index ones and the pending ones are the latest of them,
\* oldest first); and the merge waits on the oldest pending task only when
\* the window is full or no unscheduled chunk remains.
C28_WindowBoundsDecompression ==
    /\ [](mpc # "idle" =>
            /\ Len(pending_tasks) <= window_size
            /\ Cardinality({i \in DOMAIN mtask : mtask[i] = "running"})
                 <= window_size
            /\ \A i \in DOMAIN mtask : mtask[i] # "none" <=> i <= current_index
            /\ \A n \in DOMAIN pending_tasks :
                 pending_tasks[n] = current_index - Len(pending_tasks) + n)
    /\ [][(m_run' = m_run /\ Len(pending_tasks') < Len(pending_tasks))
             => \/ Len(pending_tasks) = window_size
                \/ current_index = Len(m_chunks)]_vars

\* C28 witness: with a window of two and three chunks, the first chunk has
\* been written and the window is full again with the last two chunks.
C28_Witness ==
    /\ mpc = "loop"
    /\ window_size = 2
    /\ Len(m_chunks) = 3
    /\ pending_tasks = <<2, 3>>
    /\ tar_file.content # <<>>

\* The chunks that cannot be opened or decompressed.
FailingChunks == {i \in DOMAIN m_chunks : ~gz_decode(m_chunks[i]).ok}

FirstFailing == CHOOSE i \in FailingChunks : \A j \in FailingChunks : i <= j

\* The decompressed bytes of the chunks before position n, in list order.
BytesBefore(n) == Flatten([i \in 1..(n - 1) |-> gz_decode(m_chunks[i]).bytes])

\* C29: if a chunk cannot be read or decompressed, merge_chunks does not
\* return Ok; from the creation of the output on, the output holds a prefix
\* of the decompressed chunks before the first such chunk, so no byte of it
\* or of a later chunk; and when the error has been returned the partial
\* output file is still there.
C29_MergeFailureLeavesPrefix ==
    (FailingChunks # {} /\ mpc \in {"loop", "done", "err"})
        => /\ mpc # "done"
           /\ tar_file.exists
           /\ IsPrefix(tar_file.content, BytesBefore(FirstFailing))

\* C29 witness: the third chunk is corrupt; merge_chunks returned the error
\* with the first chunk in the output and the second one lost in the buffer.
C29_Witness ==
    /\ mpc = "err"
    /\ m_chunks = <<RemoteObject("a"), RemoteObject("b"), CorruptFile>>
    /\ tar_file = TarFile(GzPayload("a"))

\* What merge_chunks has to produce from a list of chunk files.
MergedBytes(chunks) ==
    Flatten([i \in 1..Len(chunks) |-> gz_decode(chunks[i]).bytes])

\* C30: the archive of a successful merge_chunks is determined by the chunk
\* files and their order alone, whatever the output file held before the call,
\* the leftover of a failed merge included; a second successful merge over the
\* same chunks leaves the archive the first one left.
C30_RerunOverwritesFromScratch ==
    /\ (m_run = 2 /\ mpc = "done") =>
          tar_file = TarFile(MergedBytes(m_chunks))
    /\ (m_run = 2 /\ mpc = "done" /\ m_first.res = "done"
          /\ m_first.chunks = m_chunks) =>
          tar_file = m_first.tar

\* C30 witness: the first merge failed at its third chunk and left a partial
\* output; the chunk was fetched again and the second merge succeeded.
C30_Witness ==
    /\ m_run = 2
    /\ mpc = "done"
    /\ m_first.res = "err"
    /\ m_first.chunks = <<RemoteObject("a"), RemoteObject("b"), CorruptFile>>
    /\ m_first.tar = TarFile(GzPayload("a") \o GzPayload("b"))
    /\ m_chunks = <<RemoteObject("a"), RemoteObject("b"), RemoteObject("c")>>

\* C31: a download attempt succeeds exactly if the request is answered with a
\* success status, the body stream ends without error, content-length is
\* absent or equals the number of bytes written, and the entity tag (the
\* header value without its quotes) is absent, or contains '-', or equals the
\* MD5 hex digest of the streamed bytes; in particular an answer that is in
\* order except that it declares no content-length succeeds.
C31_AttemptSucceedsIffChecksPass ==
    call_pc = "download_returned"
    => LET r == call_args.resp
           tag == trim_matches(r.etag.value, Quote)
           tagAbsent == ~r.etag.present \/ ~r.etag.readable
           tagAgrees == tagAbsent \/ contains(tag, Dash) \/ tag = r.body.md5
       IN /\ call_result.ok <=>
                /\ r.kind = "ok"
                /\ r.streamOk
                /\ r.len = NoLength \/ r.len = r.body.size
                /\ tagAgrees
          /\ (r.kind = "ok" /\ r.streamOk /\ r.len = NoLength /\ tagAgrees)
                => call_result.ok

\* C31 witness: an answer without content-length whose quoted tag is the MD5
\* of the streamed bytes; the attempt succeeded and the file is the body.
C31_Witness ==
    /\ call_pc = "download_returned"
    /\ call_result.ok
    /\ call_args.resp.len = NoLength
    /\ call_args.resp.etag.readable
    /\ Len(call_args.resp.etag.value) = 3
    /\ call_args.resp.etag.value[1] = Quote
    /\ call_args.resp.etag.value[3] = Quote
    /\ <<call_args.resp.etag.value[2]>> = call_args.resp.body.md5
    /\ call_result.file = call_args.resp.body

\* C32: permits are conserved.  The permits available and the tasks between
\* their acquire and their final outcome always add up to
\* max_concurrent_downloads; a task has acquired before its first attempt and
\* stays in that state through its retries; so when no task of the shard is
\* unfinished, and when the next shard begins, all permits are available.
C32_PermitsConserved ==
    pc \notin {"idle", "start"}
    => /\ permits + Cardinality(Running) = max_concurrent_downloads
       /\ \A j \in DOMAIN tasks :
             /\ tasks[j].attempts > 0 => tasks[j].st \in {"running", "ok", "failed"}
             /\ (tasks[j].st = "running" /\ tasks[j].attempts > 0)
                   => permits < max_concurrent_downloads
       /\ Unfinished = {} => permits = max_concurrent_downloads
       /\ pc = "shard" => permits = max_concurrent_downloads

\* C32 witness: with one permit, both chunks of the first shard were
\* downloaded, one of them after failed attempts, and the second shard is
\* about to begin with the permit available.
C32_Witness ==
    /\ pc = "shard"
    /\ idx = 2
    /\ Len(shard_ids) = 2
    /\ max_concurrent_downloads = 1
    /\ permits = 1
    /\ DOMAIN tasks = {1, 2}
    /\ \A j \in DOMAIN tasks : tasks[j].st = "ok"
    /\ \E j \in DOMAIN tasks : tasks[j].attempts > 1

\* The j-th chunk's download task has been spawned and waits for a permit.
Spawned(j) == j \in DOMAIN tasks /\ tasks[j].st = "waiting"

\* The j-th chunk's download task holds a permit, or held one until it ended.
Acquired(j) == j \in DOMAIN tasks /\ tasks[j].st \in {"running", "ok", "failed"}

\* The j-th chunk's download task has ended with its result.
Final(j) == j \in DOMAIN tasks /\ tasks[j].st \in {"ok", "failed"}

DownloadTasksFinish ==
    \A j \in 1..MaxChunks :
        /\ Spawned(j) ~> Acquired(j)
        /\ Spawned(j) ~> Final(j)

MergeReturns ==
    /\ (mpc = "create") ~> (mpc \in {"done", "err"})
    /\ [](mpc = "done" => pending_tasks = <<>>)

RunReturns == (pc = "start") ~> (pc \in {"ok", "err", "exited"})

\* C33: under fair scheduling, with every request returning, every spawned
\* download task acquires a permit and ends with a result, merge_chunks
\* returns (with no task pending when it succeeds), and download_snapshots
\* returns.
C33_EverythingTerminates ==
    /\ DownloadTasksFinish
    /\ MergeReturns
    /\ RunReturns

\* The verifier answered Ok(true) for the j-th chunk of the shard in this run.
PassedVerifier(j) == j \in DOMAIN verified /\ verified[j].ok /\ verified[j].valid

\* A download attempt of this run for the j-th chunk returned Ok.
DownloadedNow(j) == j \in DOMAIN tasks /\ tasks[j].st = "ok"

\* C34: with stage All, when the merge of a shard is about to start, the list
\* handed to it is the shard's chunk paths in manifest order and each of the
\* chunks passed the verifier in this run or was written by a download
\* attempt of this run that returned Ok; no task of the shard is unfinished.
C34_MergeGetsVerifiedOrDownloaded ==
    (stage = "All" /\ pc = "merge")
    => /\ Len(local_chunks) = Len(CurChunks)
       /\ Len(verified) = Len(CurChunks)
       /\ \A j \in 1..Len(CurChunks) :
             /\ local_chunks[j] = chunk_path(CurShard, CurChunks[j])
             /\ PassedVerifier(j) \/ DownloadedNow(j)
       /\ Unfinished = {}

\* C34 witness: the merge of shard 0 is about to start; its first chunk
\* passed the verifier against the remote headers, its second was rejected
\* by the verifier and downloaded, the first attempt having failed.
C34_Witness ==
    /\ stage = "All"
    /\ pc = "merge"
    /\ ~skip_verify
    /\ CurShard = 0
    /\ PassedVerifier(1)
    /\ ~DownloadedNow(1)
    /\ ~PassedVerifier(2)
    /\ DownloadedNow(2)
    /\ tasks[2].attempts = 2

\* The manifest requests of this run, oldest first, with their outcome.
ManifestRequests ==
    LET IsManifest(e) == e.phase = "metadata" IN SelectSeq(phaseLog, IsManifest)

\* C35: the manifest requests of a run are one per entry of the shard list,
\* in list order, none repeated; only the last of them can have failed, and
\* when it has, the run has returned an error with no download, merge or
\* extract started for any shard and no other request issued.
C35_MetadataNotRetried ==
    LET M == ManifestRequests IN
    /\ Len(M) <= Len(shard_ids)
    /\ \A i \in 1..Len(M) :
          /\ M[i].shard = shard_ids[i]
          /\ i < Len(M) => M[i].res = "ok"
    /\ (M # <<>> /\ Last(M).res = "err")
          => /\ pc = "err"
             /\ PhaseEntries = <<>>
             /\ netUsed = {"manifest"}
             /\ \A j \in DOMAIN tasks : tasks[j] = NoTask

\* C35 witness: the manifest of the first shard was resolved, the request
\* for the second failed, and the run has returned its error.
C35_Witness ==
    /\ shard_ids = <<0, 1>>
    /\ pc = "err"
    /\ Len(ManifestRequests) = 2
    /\ ManifestRequests[1] = LogEntry(0, "metadata", "ok")
    /\ ManifestRequests[2] = LogEntry(1, "metadata", "err")
    /\ DOMAIN all_metadata = {0}

\* A chunk of some shard has been verified or a download task exists for it.
ChunkTouched ==
    \/ pc \in {"verify", "join"}
    \/ verified # <<>>
    \/ netUsed \cap {"head", "get"} # {}
    \/ \E j \in DOMAIN tasks : tasks[j] # NoTask

\* Every shard of the list has its manifest, resolved in this run, and
\* metadata.json holds exactly these manifests.
AllResolvedAndPersisted ==
    /\ \A i \in 1..Len(shard_ids) : shard_ids[i] \in DOMAIN all_metadata
    /\ Len(ManifestRequests) = Len(shard_ids)
    /\ \A i \in 1..Len(ManifestRequests) : ManifestRequests[i].res = "ok"
    /\ metaFile.kind = "json"
    /\ from_str(metaFile.doc) = all_metadata

\* C36: by the time the first chunk of any shard is verified or downloaded,
\* the manifests of all shards of the list have been resolved and written to
\* metadata.json; when the request for any shard fails, no chunk has been
\* verified or transferred and metadata.json is as the run found it; and
\* until the manifests are all resolved no chunk file and no metadata.json
\* is written.
C36_MetadataBeforeChunks ==
    /\ [](ChunkTouched => AllResolvedAndPersisted)
    /\ []((ManifestRequests # <<>> /\ Last(ManifestRequests).res = "err")
            => /\ ~ChunkTouched
               /\ netUsed = {"manifest"}
               /\ metaFile = initialMeta)
    /\ [][(pc \in {"start", "fetch"}) => UNCHANGED <<files, metaFile>>]_vars

\* C36 witness: the list is <<1, 0>>, no metadata.json was there, both
\* manifests were resolved and written, and the first chunk of the first
\* shard is being verified.
C36_Witness ==
    /\ shard_ids = <<1, 0>>
    /\ initialMeta = NoMetaFile
    /\ pc = "verify"
    /\ idx = 1
    /\ k = 1
    /\ verified = <<>>
    /\ Len(ManifestRequests) = 2
    /\ metaFile.kind = "json"
    /\ DOMAIN from_str(metaFile.doc) = {0, 1}

DownloadStageFailed ==
    /\ pc \in {"err", "exited"}
    /\ phaseLog # <<>>
    /\ Last(phaseLog).phase = "download"

TaskPath(j) == chunk_path(CurShard, CurChunks[j])

\* C39: no two download tasks that hold a permit at the same time have the
\* same local chunk path, whatever manifest the shard has.
C39_OneWriterPerPath ==
    \A i \in Running : \A j \in Running :
        i # j => TaskPath(i) # TaskPath(j)

\* The decompression tasks that were spawned and have not run to their end.
InFlight == {i \in DOMAIN mtask : mtask[i] = "running"}

\* C40: when merge_chunks has returned, with Ok or with an error, none of the
\* decompression tasks it spawned is still running.
C40_NoTaskInFlightOnReturn ==
    mpc \in {"done", "err"} => InFlight = {}

====
